---- MODULE Spec2Model ----
(***************************************************************************)
(* Model of lutris/sysoptions.py (with_runner_overrides, the override      *)
(* merge of the system option list; the discovery functions and the option *)
(* list itself) and of lutris/gui/installerwindow.py (the installer wizard *)
(* window).                                                                *)
(*                                                                         *)
(* Python objects are modelled by reference: `heap` is the sequence of all *)
(* descriptor dicts ever allocated, a reference is an index into it.       *)
(***************************************************************************)
EXTENDS Integers, Sequences, FiniteSets, TLC

VARIABLES
    heap,             \* all descriptor dicts, by reference (index)
    system_options,   \* sysoptions.system_options: list of references
    cls_override,     \* Runner.system_options_override on the class
    inst_override,    \* runner().system_options_override on an instance
    heap0,            \* the heap as it was when the module was loaded
    options0,         \* system_options as it was when the module was loaded
    mpc,              \* "idle" | "returned" | "remerged"
    slug,             \* the runner_slug of the last call
    result,           \* the list returned by the last call (references)
    prev,             \* the value an earlier call with the runner returned, if any
    installers,       \* InstallerWindow.installers: the list of install scripts
    installers0,      \* the scripts as they were passed to the constructor
    env,              \* what the collaborators answer in this session
    w,                \* the installer window, its widgets and its collaborators
    machine,          \* what the discovery functions find on this machine
    probe,            \* the last discovery function called and what it returned
    picker,           \* the extras picker: its tree store and what was confirmed
    shortcuts         \* the shortcut check boxes, self.config and the shortcuts made

mvars == <<heap, system_options, cls_override, inst_override, heap0, options0,
           mpc, slug, result, prev>>

ivars == <<installers, installers0, env, w>>

pvars == <<machine, probe>>

xvars == <<picker>>

svars == <<shortcuts>>

vars == <<mvars, ivars, pvars, xvars, svars>>

-----------------------------------------------------------------------------
(* Bounds of the model *)
MaxBase == 2
MaxOver == 2

OptionKeys == {"a", "b", "c"}
OtherFields == {"label", "default"}
Slugs == {"wine", "nosuchrunner"}
OverrideValues(f) == IF f = "label" THEN {"o1", "o2"} ELSE {"o1"}

None == 0

-----------------------------------------------------------------------------
(* Python dict / OrderedDict primitives *)

\* dict.update(other): other's fields win, the rest is kept
Update(d, o) ==
    [f \in (DOMAIN d) \cup (DOMAIN o) |-> IF f \in DOMAIN o THEN o[f] ELSE d[f]]

\* truth value of a dict (or of None)
Truthy(h, ref) == ref # None /\ DOMAIN h[ref] # {}

\* An OrderedDict is a sequence of [key, ref] entries in insertion order
DictHas(od, key) == \E i \in 1..Len(od) : od[i].key = key

DictIndex(od, key) == CHOOSE i \in 1..Len(od) : od[i].key = key

\* OrderedDict.get(key): the value, or None
DictGet(od, key) == IF DictHas(od, key) THEN od[DictIndex(od, key)].ref ELSE None

\* a mutant of DictSet: assignment always appends a new entry
DictSetAppends(od, key, ref) == Append(od, [key |-> key, ref |-> ref])

\* OrderedDict.__setitem__: an existing key keeps its position
DictSet(od, key, ref) ==
    IF DictHas(od, key)
    THEN [od EXCEPT ![DictIndex(od, key)].ref = ref]
    ELSE Append(od, [key |-> key, ref |-> ref])

\* OrderedDict((opt["option"], opt) for opt in options)
RECURSIVE DictFromOptions(_, _, _)
DictFromOptions(h, options, i) ==
    IF i = 0 THEN <<>>
    ELSE DictSet(DictFromOptions(h, options, i - 1), h[options[i]]["option"], options[i])

\* list(opts_dict.values())
DictValues(od) == [i \in 1..Len(od) |-> od[i].ref]

-----------------------------------------------------------------------------
(* with_runner_overrides, lines 534-542 *)

\* a mutant of CopyDescriptor: no copy is made, the entry itself is updated
CopyDescriptorAliased(h, ref) == [heap |-> h, ref |-> ref]

\* opts_dict[key].copy(): a new dict with the same fields
CopyDescriptor(h, ref) == [heap |-> Append(h, h[ref]), ref |-> Len(h) + 1]

\* a mutant of OverrideStep: the override replaces the whole descriptor
OverrideStepReplaces(st, option) ==
    [heap |-> st.heap, dict |-> DictSet(st.dict, st.heap[option]["option"], option)]

\* one iteration of the loop over runner.system_options_override
OverrideStep(st, option) ==
    LET key == st.heap[option]["option"]
        cur == DictGet(st.dict, key)
    IN  IF Truthy(st.heap, cur)
        THEN LET c == CopyDescriptor(st.heap, cur)
                 d == DictSet(st.dict, key, c.ref)
             IN  [heap |-> [c.heap EXCEPT ![c.ref] = Update(c.heap[c.ref], c.heap[option])],
                  dict |-> d]
        ELSE [heap |-> st.heap, dict |-> DictSet(st.dict, key, option)]

RECURSIVE OverrideLoop(_, _, _)
OverrideLoop(st, override, i) ==
    IF i = 0 THEN st
    ELSE OverrideStep(OverrideLoop(st, override, i - 1), override[i])

\* lines 534-542: the merge of an override list into an option list
MergeOverrides(h, options, override) ==
    LET st == OverrideLoop([heap |-> h, dict |-> DictFromOptions(h, options, Len(options))],
                           override, Len(override))
    IN  [heap |-> st.heap, options |-> DictValues(st.dict)]

-----------------------------------------------------------------------------
(* Values, as opposed to references *)

ValueOf(h, refs) == [i \in 1..Len(refs) |-> h[refs[i]]]
KeysOf(h, refs) == [i \in 1..Len(refs) |-> h[refs[i]]["option"]]
KeySet(h, refs) == {h[refs[i]]["option"] : i \in 1..Len(refs)}
Distinct(s) == \A i, j \in 1..Len(s) : i # j => s[i] # s[j]

\* the objects that exist before any call: the base and the override descriptors
Permanent == Len(heap0)

-----------------------------------------------------------------------------
(* Initial states: a base option list with distinct keys, one runner *)

BaseDescriptor(k) == [option |-> k, label |-> "base", default |-> "base"]

OverrideDescriptors ==
    UNION { UNION { { [f \in {"option"} \cup S |-> IF f = "option" THEN k ELSE g[f]]
                      : g \in { g \in [S -> {"o1", "o2"}] :
                                  /\ \A f \in S : g[f] \in OverrideValues(f)
                                  /\ S = OtherFields => g["label"] = "o2" } }
                    : S \in SUBSET OtherFields }
            : k \in OptionKeys }

SeqsUpTo(S, n) == UNION { [1..m -> S] : m \in 0..n }

\* no discovery function is called
ProbeUnused ==
    /\ machine = <<>>
    /\ probe = <<>>

\* no extras picker is built
PickerUnused == picker = <<>>

\* no shortcut check box is built
ShortcutsUnused == shortcuts = <<>>

BaseKeyLists == { s \in SeqsUpTo(OptionKeys, MaxBase) : Distinct(s) }

MInit ==
    \E bk \in BaseKeyLists, ov \in SeqsUpTo(OverrideDescriptors, MaxOver),
       onClass \in BOOLEAN :
        /\ heap = [i \in 1..Len(bk) |-> BaseDescriptor(bk[i])] \o ov
        /\ system_options = [i \in 1..Len(bk) |-> i]
        /\ inst_override = [i \in 1..Len(ov) |-> Len(bk) + i]
        /\ cls_override = IF onClass THEN inst_override ELSE <<>>
        /\ heap0 = heap
        /\ options0 = system_options
        /\ mpc = "idle"
        /\ slug = "none"
        /\ result = <<>>
        /\ prev = [set |-> FALSE, value |-> <<>>]
        /\ ProbeUnused
        /\ PickerUnused
        /\ ShortcutsUnused
        /\ installers = <<>>
        /\ installers0 = <<>>
        /\ env = <<>>
        /\ w = <<>>

-----------------------------------------------------------------------------
(* with_runner_overrides(runner_slug), lines 524-543 *)

\* a mutant of InvalidRunner: every slug is taken for a runner
InvalidRunnerNever(s) == FALSE

\* runners.import_runner raises InvalidRunner for an unknown slug
InvalidRunner(s) == s = "nosuchrunner"

\* lines 531-533: the class attribute when truthy, else the instance's
RunnerOverride == IF cls_override # <<>> THEN cls_override ELSE inst_override

\* a mutant of DefaultOptions: the function starts from an empty list
DefaultOptionsEmpty == <<>>

\* line 526: options = system_options
DefaultOptions == system_options

\* objects of earlier calls that nothing refers to any more are dropped
Collected == SubSeq(heap, 1, Permanent)

with_runner_overrides(s) ==
    /\ slug' = s
    /\ mpc' = "returned"
    /\ prev' = IF slug = "wine" /\ mpc = "returned"
               THEN [set |-> TRUE, value |-> ValueOf(heap, result)]
               ELSE prev
    /\ IF InvalidRunner(s)
       THEN /\ result' = DefaultOptions
            /\ heap' = Collected
            /\ UNCHANGED system_options
       ELSE IF RunnerOverride # <<>>
            THEN LET m == MergeOverrides(Collected, DefaultOptions, RunnerOverride)
                 IN  /\ heap' = m.heap
                     /\ result' = m.options
                     /\ UNCHANGED system_options
            ELSE /\ result' = DefaultOptions
                 /\ heap' = Collected
                 /\ UNCHANGED system_options
    /\ UNCHANGED <<cls_override, inst_override, heap0, options0>>
    /\ UNCHANGED <<ivars, pvars, xvars, svars>>

\* the merge applied once more, to the list the last call returned
MergeAgain ==
    /\ mpc = "returned"
    /\ slug = "wine"
    /\ LET m == MergeOverrides(heap, result, RunnerOverride)
       IN  /\ heap' = m.heap
           /\ result' = m.options
    /\ prev' = [set |-> TRUE, value |-> ValueOf(heap, result)]
    /\ mpc' = "remerged"
    /\ UNCHANGED <<system_options, cls_override, inst_override, heap0, options0, slug>>
    /\ UNCHANGED <<ivars, pvars, xvars, svars>>

MNext ==
    \/ \E s \in Slugs : with_runner_overrides(s)
    \/ MergeAgain

SpecMerge == MInit /\ [][MNext]_vars

-----------------------------------------------------------------------------
(* Properties of the override merge *)

\* the inputs of the merge, as values
BaseValue == ValueOf(heap0, options0)
BaseKeys == KeysOf(heap0, options0)
OverValue == ValueOf(heap0, RunnerOverride)
OverKeys == KeysOf(heap0, RunnerOverride)
Range(s) == {s[i] : i \in 1..Len(s)}

\* a call with the importable runner has returned
Merged == mpc = "returned" /\ slug = "wine"
ResultValue == ValueOf(heap, result)
ResultKeys == KeysOf(heap, result)

\* C1: when every override key is a key of the base, the result has as many
\* descriptors as the base and the same sequence of keys.
C1_SubsetKeepsKeys ==
    (Merged /\ Range(OverKeys) \subseteq Range(BaseKeys))
        => (Len(result) = Len(BaseKeys) /\ ResultKeys = BaseKeys)

C1_Witness ==
    /\ Merged
    /\ Len(BaseKeys) = 2
    /\ Len(OverKeys) = 2
    /\ Range(OverKeys) = {BaseKeys[2]}
    /\ ResultKeys = BaseKeys

\* the override keys that are not base keys, in the order of their first occurrence
RECURSIVE NewKeys(_, _, _)
NewKeys(ks, base, i) ==
    IF i = 0 THEN <<>>
    ELSE LET before == NewKeys(ks, base, i - 1)
         IN  IF ks[i] \in Range(base) \/ ks[i] \in Range(before)
             THEN before
             ELSE Append(before, ks[i])

\* C2: the result's keys are the base keys in base order, followed by the new
\* keys in the order of their first occurrence in the override list; its length
\* is N plus the number of distinct new keys.
C2_NewKeysAppended ==
    Merged =>
        /\ ResultKeys = BaseKeys \o NewKeys(OverKeys, BaseKeys, Len(OverKeys))
        /\ Len(result) = Len(BaseKeys) + Cardinality(Range(OverKeys) \ Range(BaseKeys))

C2_Witness ==
    /\ Merged
    /\ Len(BaseKeys) = 2
    /\ Len(OverKeys) = 2
    /\ OverKeys[1] = BaseKeys[2]
    /\ OverKeys[2] \notin Range(BaseKeys)
    /\ ResultKeys = Append(BaseKeys, OverKeys[2])

\* the override entries that name key k, and those of them that name field f
EntriesFor(k) == {j \in 1..Len(OverKeys) : OverKeys[j] = k}
EntriesNaming(k, f) == {j \in EntriesFor(k) : f \in DOMAIN OverValue[j]}
Last(S) == CHOOSE j \in S : \A m \in S : m <= j
BaseFields(k) ==
    IF k \in Range(BaseKeys)
    THEN DOMAIN BaseValue[CHOOSE i \in 1..Len(BaseKeys) : BaseKeys[i] = k]
    ELSE {}
BaseField(k, f) == BaseValue[CHOOSE i \in 1..Len(BaseKeys) : BaseKeys[i] = k][f]

\* C3: every descriptor of the result has, for each field the override names
\* for its key, the override's value (the last one when the key is named more
\* than once), and for every other field the base descriptor's value; a key
\* absent from the base has exactly the fields of the override.
C3_FieldwiseOverride ==
    Merged =>
        \A i \in 1..Len(result) :
            LET d == ResultValue[i]
                k == d["option"]
            IN  /\ DOMAIN d = BaseFields(k) \cup
                       UNION {DOMAIN OverValue[j] : j \in EntriesFor(k)}
                /\ \A f \in DOMAIN d :
                       d[f] = IF EntriesNaming(k, f) # {}
                              THEN OverValue[Last(EntriesNaming(k, f))][f]
                              ELSE BaseField(k, f)

C3_Witness ==
    /\ Merged
    /\ \E i \in 1..Len(result) :
          /\ ResultKeys[i] \in Range(BaseKeys)
          /\ ResultValue[i]["label"] = "o2"
          /\ ResultValue[i]["default"] = "base"
    /\ \E i \in 1..Len(result) :
          /\ ResultKeys[i] \notin Range(BaseKeys)
          /\ DOMAIN ResultValue[i] = {"option", "default"}

\* C4: with an empty (falsy) override list the result equals the base list, in
\* content and in order.
C4_EmptyOverrideIsBase ==
    (Merged /\ RunnerOverride = <<>>) => ResultValue = BaseValue

C4_Witness ==
    /\ Merged
    /\ RunnerOverride = <<>>
    /\ Len(BaseValue) = 2
    /\ ResultValue = BaseValue

\* C5: merging the override list into the result of a merge gives a list equal
\* to the result of that first merge (same keys, same order, same fields).
C5_Idempotent ==
    (mpc = "remerged") => ResultValue = prev.value

C5_Witness ==
    /\ mpc = "remerged"
    /\ Len(OverKeys) = 2
    /\ OverKeys[1] = OverKeys[2]
    /\ OverValue[1] # OverValue[2]
    /\ OverKeys[1] \notin Range(BaseKeys)
    /\ Len(BaseKeys) = 1

\* C6: no two descriptors of a merged list share a key, also when the override
\* list names a key more than once.
C6_KeysStayUnique ==
    (mpc \in {"returned", "remerged"}) => Distinct(ResultKeys)

C6_Witness ==
    /\ Merged
    /\ Len(OverKeys) = 2
    /\ OverKeys[1] = OverKeys[2]
    /\ OverKeys[1] \notin Range(BaseKeys)
    /\ Len(result) = Len(BaseKeys) + 1

\* C7: the calls leave the global option list and every base and override
\* descriptor as they were, and a second call with the same runner returns a
\* list equal to the first.
C7_InputsUnchanged ==
    /\ system_options = options0
    /\ \A r \in 1..Permanent : heap[r] = heap0[r]
    /\ (Merged /\ prev.set) => ResultValue = prev.value

C7_Witness ==
    /\ Merged
    /\ prev.set
    /\ Len(OverKeys) = 2
    /\ OverKeys[1] = OverKeys[2]
    /\ \E i \in 1..Len(BaseKeys) : ResultValue[i] # BaseValue[i]

-----------------------------------------------------------------------------
(***************************************************************************)
(* lutris/gui/installerwindow.py: the installer window.                    *)
(*                                                                         *)
(* Every handler is an operator from the window (with its widgets and      *)
(* collaborators) to the window after the handler has run to completion;   *)
(* an action is one event of the GTK main loop.                            *)
(***************************************************************************)

MaxScripts == 2
MaxPrepares == 2
MaxMenus == 1
MaxAttempts == 2

PyNone == "<None>"
RequiredFields == <<"name", "runner", "version">>
FixedFields == <<"description", "notes">>
Versions == {"v1", "v2"}

\* dict.get(key): the value, or None
Get(d, key) == IF key \in DOMAIN d THEN d[key] ELSE PyNone

\* x or "": the empty string for None and for the empty string
OrEmpty(x) == IF x = PyNone \/ x = "" THEN "" ELSE x

\* a mutant of FixScript: a present field is kept as it is, None included
FixScriptKeepsNone(script) ==
    [f \in DOMAIN script \cup {"description", "notes"} |->
        IF f \in {"description", "notes"} /\ f \notin DOMAIN script THEN "" ELSE script[f]]

\* lines 119-120: script[item] = script.get(item) or ""
FixScript(script) ==
    [f \in DOMAIN script \cup {"description", "notes"} |->
        IF f \in {"description", "notes"} THEN OrEmpty(Get(script, f)) ELSE script[f]]

\* a mutant of MissingField: the fields are looked for in another order
MissingFieldReversed(script) ==
    IF "version" \notin DOMAIN script THEN "version"
    ELSE IF "runner" \notin DOMAIN script THEN "runner"
    ELSE IF "name" \notin DOMAIN script THEN "name"
    ELSE PyNone

\* lines 121-124: the first of name, runner, version the script lacks, or None
MissingField(script) ==
    IF RequiredFields[1] \notin DOMAIN script THEN RequiredFields[1]
    ELSE IF RequiredFields[2] \notin DOMAIN script THEN RequiredFields[2]
    ELSE IF RequiredFields[3] \notin DOMAIN script THEN RequiredFields[3]
    ELSE PyNone

\* lines 118-124: the loop over the scripts, up to and including script i;
\* the scripts are fixed in place, the loop ends at the first error
RECURSIVE ValidateLoop(_, _)
ValidateLoop(scripts, i) ==
    IF i = 0 THEN [scripts |-> scripts, error |-> "none"]
    ELSE LET before == ValidateLoop(scripts, i - 1)
         IN  IF before.error # "none" THEN before
             ELSE LET fixed == [before.scripts EXCEPT ![i] = FixScript(@)]
                      missing == MissingField(fixed[i])
                  IN  [scripts |-> fixed,
                       error |-> IF missing = PyNone THEN "none"
                                 ELSE "ScriptingError: Missing field " \o missing]

\* validate_scripts, lines 114-124
validate_scripts(scripts) ==
    IF scripts = <<>>
    THEN [scripts |-> scripts, error |-> "ScriptingError: No installer available"]
    ELSE ValidateLoop(scripts, Len(scripts))

-----------------------------------------------------------------------------
(* The window *)

Buttons == {"cancel", "eject", "source", "install", "continue", "play", "close"}

\* the object before __init__ has run
NoWindow ==
    [stage |-> "new",               \* "new" | "open" | "destroyed"
     last |-> "none",               \* the event handled last
     raised |-> "none",             \* the exception the last event ended with
     returned |-> "None",           \* what confirm_cancel or on_destroy returned last
     install_in_progress |-> FALSE,
     interpreter |-> 0,             \* None, or the index of the interpreter's script
     ipc |-> "none",                \* what the interpreter is doing
     target_version |-> PyNone,     \* the version the picker reported
     extras_set |-> FALSE,          \* interpreter.extras is not None
     extras |-> <<>>,               \* interpreter.extras
     signal_conn |-> 0,             \* connections of runners-installed
     cancel_files_func |-> 0,       \* None, or the box whose stop_all it is
     continue_handler |-> 0,        \* None, or a handler id
     handlers |-> {},               \* the handlers connected to continue_button
     next_id |-> 1,                 \* the id the next connect() returns
     stale_disconnect |-> FALSE,    \* disconnect() was given an id not connected
     visible |-> {},                \* the action buttons that are shown
     continue_sensitive |-> TRUE,
     play_sensitive |-> TRUE,
     screen |-> "none",             \* what widget_box holds
     status |-> "",                 \* status_label
     boxes |-> <<>>,                \* the InstallerFilesBox objects created
     idle |-> <<>>,                 \* callbacks queued with GLib.idle_add
     calls |-> <<>>,                \* stop_all, revert, cleanup, destroy, in order
     log |-> <<>>,                  \* the steps of the wizard, in order
     game_id |-> 0,                 \* the id on_install_finished was given; 0: empty
     launches |-> 0,                \* calls of interpreter.launch_installer_commands
     prepares |-> 0,                \* calls of installer.prepare_game_files
     menus |-> 0,                   \* input menus shown
     pickers |-> 0,                 \* extras pickers shown
     questions |-> 0,               \* missing-dependency questions asked
     new_windows |-> 0]             \* InstallerWindow objects created by this one

\* clean_widgets, lines 590-593: every child of widget_box is destroyed
clean_widgets(win) ==
    [win EXCEPT !.screen = "empty",
                !.boxes = [i \in DOMAIN win.boxes |-> [win.boxes[i] EXCEPT !.alive = FALSE]]]

\* Gtk.Window.destroy()
destroy(win) ==
    [win EXCEPT !.stage = "destroyed", !.calls = Append(@, "destroy")]

\* a mutant of choose_installer: the picker is built before the scripts are checked
choose_installer_unchecked(win, scripts) ==
    [win |-> [win EXCEPT !.screen = "picker"], scripts |-> validate_scripts(scripts).scripts]

\* choose_installer, lines 126-140
choose_installer(win, scripts) ==
    LET v == validate_scripts(scripts)
    IN  IF v.error # "none"
        THEN [win |-> [win EXCEPT !.raised = v.error], scripts |-> v.scripts]
        ELSE [win |-> [win EXCEPT !.screen = "picker"], scripts |-> v.scripts]

\* __init__, lines 29-102
InstallerWindow_init(win, scripts) ==
    LET shown == [win EXCEPT !.stage = "open",
                             !.last = "__init__",
                             !.install_in_progress = TRUE,
                             !.screen = "empty",
                             !.visible = Buttons \ {"close", "play", "install", "source",
                                                    "eject", "continue"}]
    IN  choose_installer(shown, scripts)

\* InstallerWindow(installers): the constructor call
Construct ==
    /\ w.stage = "new"
    /\ LET r == InstallerWindow_init(w, installers)
       IN  /\ w' = r.win
           /\ installers' = r.scripts
    /\ UNCHANGED <<installers0, env, mvars, pvars, xvars, svars>>

-----------------------------------------------------------------------------
(* Construction alone, over all script lists *)

ScriptValues(f) ==
    IF f = "description" THEN {PyNone, "text"}
    ELSE IF f = "notes" THEN {PyNone, "text"}
    ELSE IF f = "version" THEN {"v1"}
    ELSE {"x"}

AllFields == {"name", "runner", "version", "description", "notes"}

Scripts ==
    UNION { { g \in [S -> {PyNone, "", "text", "v1", "x"}] :
                \A f \in S : g[f] \in ScriptValues(f) }
            : S \in SUBSET AllFields }

MergeUnused ==
    /\ heap = <<>>
    /\ system_options = <<>>
    /\ cls_override = <<>>
    /\ inst_override = <<>>
    /\ heap0 = <<>>
    /\ options0 = <<>>
    /\ mpc = "idle"
    /\ slug = "none"
    /\ result = <<>>
    /\ prev = [set |-> FALSE, value |-> <<>>]

VInit ==
    /\ MergeUnused
    /\ ProbeUnused
    /\ PickerUnused
    /\ ShortcutsUnused
    /\ installers \in SeqsUpTo(Scripts, MaxScripts)
    /\ installers0 = installers
    /\ env = <<>>
    /\ w = NoWindow

VNext == Construct

SpecValidate == VInit /\ [][VNext]_vars

\* the script lacks one of name, runner, version
Lacks(script) == \E i \in 1..3 : RequiredFields[i] \notin DOMAIN script

\* C10: construction raises ScriptingError when the list is empty or a script
\* lacks name, runner or version; the error names the first missing field of
\* the first such script; no picker is shown and no interpreter exists then;
\* when validation succeeds every script has description and notes, not None.
C10_ValidationAtConstruction ==
    (w.stage = "open" /\ w.last = "__init__") =>
        /\ w.interpreter = 0
        /\ IF installers0 = <<>>
           THEN w.raised = "ScriptingError: No installer available" /\ w.screen # "picker"
           ELSE IF \E i \in 1..Len(installers0) : Lacks(installers0[i])
           THEN LET i == CHOOSE i \in 1..Len(installers0) :
                           /\ Lacks(installers0[i])
                           /\ \A j \in 1..(i - 1) : ~Lacks(installers0[j])
                    k == CHOOSE k \in 1..3 :
                           /\ RequiredFields[k] \notin DOMAIN installers0[i]
                           /\ \A m \in 1..(k - 1) : RequiredFields[m] \in DOMAIN installers0[i]
                IN  /\ w.raised = "ScriptingError: Missing field " \o RequiredFields[k]
                    /\ w.screen # "picker"
           ELSE /\ w.raised = "none"
                /\ w.screen = "picker"
                /\ \A i \in 1..Len(installers) :
                      /\ {"description", "notes"} \subseteq DOMAIN installers[i]
                      /\ installers[i]["description"] # PyNone
                      /\ installers[i]["notes"] # PyNone

\* a script without runner and version after a complete one: the error names runner
C10_Witness ==
    /\ w.stage = "open"
    /\ Len(installers0) = 2
    /\ ~Lacks(installers0[1])
    /\ DOMAIN installers0[2] = {"name", "description"}
    /\ installers0[2]["description"] = PyNone
    /\ w.raised = "ScriptingError: Missing field runner"
    /\ w.screen = "empty"

-----------------------------------------------------------------------------
(* The continue button's handlers *)

Connected(win, id) == \E h \in win.handlers : h.id = id

\* GObject.disconnect(id): an id that is not connected only draws a warning
Disconnect(win, id) ==
    IF Connected(win, id)
    THEN [win EXCEPT !.handlers = {h \in @ : h.id # id}]
    ELSE [win EXCEPT !.stale_disconnect = TRUE]

\* continue_handler = continue_button.connect("clicked", target, box)
Connect(win, target, box) ==
    [win EXCEPT !.handlers = @ \cup {[id |-> win.next_id, target |-> target, box |-> box]},
                !.continue_handler = win.next_id,
                !.next_id = @ + 1]

\* if self.continue_handler: disconnect it; then connect the next step's handler
Rewire(win, target, box) ==
    Connect(IF win.continue_handler # 0 THEN Disconnect(win, win.continue_handler) ELSE win,
            target, box)

Show(win, b) == [win EXCEPT !.visible = @ \cup {b}]
Hide(win, b) == [win EXCEPT !.visible = @ \ {b}]

-----------------------------------------------------------------------------
(* Script selection and the destination screen *)

\* a mutant of the loop of lines 155-158: the first script is taken whatever
\* its version
SelectedScriptFirst(scripts, version) ==
    IF scripts = <<>> THEN 0 ELSE 1

\* lines 155-158: the last script of the list with the selected version
SelectedScript(scripts, version) ==
    IF \E i \in 1..Len(scripts) : scripts[i]["version"] = version
    THEN CHOOSE i \in 1..Len(scripts) :
            /\ scripts[i]["version"] = version
            /\ \A j \in (i + 1)..Len(scripts) : scripts[j]["version"] # version
    ELSE 0

\* on_install_clicked, lines 213-218
on_install_clicked(win) ==
    LET h == Hide(Hide(win, "install"), "source")
    IN  [h EXCEPT !.signal_conn = @ + 1, !.idle = Append(@, "launch_install"),
                  !.log = Append(@, "idle_add launch_install")]

\* set_install_destination, lines 220-233
set_install_destination(win) ==
    [Show(Hide(win, "install"), "continue") EXCEPT !.continue_sensitive = FALSE,
                                                   !.screen = "destination"]

\* select_install_folder, lines 193-207
select_install_folder(win) ==
    IF ~env.creates_game_folder
    THEN on_install_clicked(win)
    ELSE LET d == set_install_destination(win)
             u == IF d.continue_handler # 0 THEN Disconnect(d, d.continue_handler) ELSE d
         IN  Show(Show(Hide(u, "continue"), "source"), "install")

\* a mutant of on_installer_selected: the window survives a refused dependency
on_installer_selected_stays_open(win, version, yes) ==
    LET c == [clean_widgets(win) EXCEPT !.target_version = version]
    IN  IF env.missing_dependency
        THEN LET q == [c EXCEPT !.questions = @ + 1,
                                !.new_windows = IF yes THEN @ + 1 ELSE @]
             IN  IF yes THEN destroy(q) ELSE q
        ELSE LET i == [c EXCEPT !.interpreter = SelectedScript(installers, version),
                                !.ipc = "created",
                                !.log = Append(@, "ScriptInterpreter")]
                 f == select_install_folder(i)
             IN  [f EXCEPT !.screen = IF @ = "destination" THEN @ ELSE "shortcuts"]

\* on_installer_selected, lines 146-191; yes: the answer to the dependency question
on_installer_selected(win, version, yes) ==
    LET c == [clean_widgets(win) EXCEPT !.target_version = version]
    IN  IF env.missing_dependency
        THEN LET q == [c EXCEPT !.questions = @ + 1,
                                !.new_windows = IF yes THEN @ + 1 ELSE @]
             IN  destroy(q)
        ELSE LET i == [c EXCEPT !.interpreter = SelectedScript(installers, version),
                                !.ipc = "created",
                                !.log = Append(@, "ScriptInterpreter")]
                 f == select_install_folder(i)
             IN  \* the shortcut check buttons are packed into widget_box
                 [f EXCEPT !.screen = IF @ = "destination" THEN @ ELSE "shortcuts"]

-----------------------------------------------------------------------------
(* Extras, files and downloads *)

\* interpreter.launch_installer_commands()
launch_installer_commands(win) ==
    [win EXCEPT !.launches = @ + 1, !.ipc = "commands",
                !.log = Append(@, "launch_installer_commands")]

\* a mutant of show_installer_files_screen: the box's stop_all is not kept
show_installer_files_screen_no_cancel(win) ==
    LET c == [clean_widgets(win) EXCEPT !.status = "review"]
        b == Len(c.boxes) + 1
        n == [c EXCEPT !.boxes = Append(@, [state |-> "new", alive |-> TRUE, attempts |-> 0]),
                       !.screen = "files",
                       !.continue_sensitive = env.box_ready]
    IN  Rewire(Show(n, "continue"), "on_files_confirmed", b)

\* show_installer_files_screen, lines 319-342
show_installer_files_screen(win) ==
    LET c == [clean_widgets(win) EXCEPT !.status = "review"]
        b == Len(c.boxes) + 1
        n == [c EXCEPT !.boxes = Append(@, [state |-> "new", alive |-> TRUE, attempts |-> 0]),
                       !.cancel_files_func = b,
                       !.screen = "files",
                       !.continue_sensitive = env.box_ready]
    IN  Rewire(Show(n, "continue"), "on_files_confirmed", b)

\* show_extras, lines 356-402
show_extras(win) ==
    LET c == [clean_widgets(win) EXCEPT !.status = "extras", !.screen = "extras",
                                        !.pickers = @ + 1,
                                        !.continue_sensitive = TRUE]
    IN  Rewire(Show(c, "continue"), "on_extras_confirmed", 0)

\* a mutant of on_runners_ready: the extras are never offered
on_runners_ready_skips_extras(win) ==
    LET p == [win EXCEPT !.prepares = @ + 1,
                         !.log = Append(@, "prepare_game_files")]
    IN  IF env.unavailable
        THEN [p EXCEPT !.raised = "ScriptingError: UnavailableGame"]
        ELSE IF ~env.has_files
        THEN launch_installer_commands(p)
        ELSE show_installer_files_screen(p)

\* on_runners_ready, lines 300-317
on_runners_ready(win) ==
    IF ~win.extras_set /\ env.has_extras
    THEN show_extras(win)
    ELSE LET p == [win EXCEPT !.prepares = @ + 1,
                              !.log = Append(@, "prepare_game_files")]
         IN  IF env.unavailable
             THEN [p EXCEPT !.raised = "ScriptingError: UnavailableGame"]
             ELSE IF ~env.has_files
             THEN launch_installer_commands(p)
             ELSE show_installer_files_screen(p)

\* a mutant of on_extras_confirmed: interpreter.extras is left as it was
on_extras_confirmed_forgets(win) ==
    [win EXCEPT !.idle = Append(@, "on_runners_ready"),
                !.log = Append(@, "on_extras_confirmed")]

\* on_extras_confirmed, lines 433-444
on_extras_confirmed(win) ==
    [win EXCEPT !.extras_set = TRUE, !.idle = Append(@, "on_runners_ready"),
                !.log = Append(@, "on_extras_confirmed")]

\* on_files_ready, lines 446-448
on_files_ready(win, files_ready) == [win EXCEPT !.continue_sensitive = files_ready]

\* a mutant of on_files_confirmed: the handler is disconnected before start_all
on_files_confirmed_disconnects_first(win, box, denied) ==
    LET s == Disconnect([win EXCEPT !.status = "", !.continue_sensitive = FALSE],
                        win.continue_handler)
    IN  IF denied
        THEN [s EXCEPT !.boxes[box].attempts = @ + 1,
                       !.continue_sensitive = TRUE,
                       !.raised = "ScriptingError: Unable to get files"]
        ELSE [s EXCEPT !.boxes[box].attempts = @ + 1, !.boxes[box].state = "downloading"]

\* a mutant of on_files_confirmed: the handler stays connected after the start
on_files_confirmed_stays_connected(win, box, denied) ==
    LET s == [win EXCEPT !.status = "", !.continue_sensitive = FALSE]
    IN  IF denied
        THEN [s EXCEPT !.boxes[box].attempts = @ + 1,
                       !.continue_sensitive = TRUE,
                       !.raised = "ScriptingError: Unable to get files"]
        ELSE [s EXCEPT !.boxes[box].attempts = @ + 1,
                       !.boxes[box].state = "downloading"]

\* on_files_confirmed, lines 450-461; denied: start_all raises PermissionError
on_files_confirmed(win, box, denied) ==
    LET s == [win EXCEPT !.status = "", !.continue_sensitive = FALSE]
    IN  IF denied
        THEN [s EXCEPT !.boxes[box].attempts = @ + 1,
                       !.continue_sensitive = TRUE,
                       !.raised = "ScriptingError: Unable to get files"]
        ELSE Disconnect([s EXCEPT !.boxes[box].attempts = @ + 1,
                                  !.boxes[box].state = "downloading"],
                        s.continue_handler)

\* on_files_available, lines 463-470
on_files_available(win, box) ==
    LET a == [win EXCEPT !.cancel_files_func = 0, !.boxes[box].state = "available",
                         !.log = Append(@, "files-available")]
    IN  launch_installer_commands(clean_widgets(Hide(a, "continue")))

\* input_menu, lines 270-294; active: the preselected id is one of the options
input_menu(win, active) ==
    LET c == [clean_widgets(win) EXCEPT !.screen = "input", !.menus = @ + 1]
        r == Show(Rewire(c, "input_callback", 0), "continue")
    IN  [r EXCEPT !.continue_sensitive = active]

-----------------------------------------------------------------------------
(* The end of the installation *)

\* on_install_finished, lines 472-503; game_id 0 is the empty id. With an empty
\* id the name `game` of line 496 is unbound and the handler ends there.
on_install_finished(win, game_id) ==
    LET c == [clean_widgets(win) EXCEPT !.install_in_progress = FALSE, !.ipc = "finished",
                                        !.game_id = game_id,
                                        !.log = Append(@, "on_install_finished")]
        h == Hide(Hide(Hide(Hide(c, "eject"), "cancel"), "continue"), "install")
    IN  IF game_id = 0
        THEN [h EXCEPT !.raised = "UnboundLocalError: game"]
        ELSE Show(Show(h, "play"), "close")

\* a mutant of on_install_error: the error ends the installation as a success does
on_install_error_ends_install(win) ==
    Show([clean_widgets(win) EXCEPT !.status = "error", !.ipc = "error",
                                    !.install_in_progress = FALSE], "close")

\* on_install_error, lines 509-512
on_install_error(win) ==
    [clean_widgets(win) EXCEPT !.status = "error", !.ipc = "error"]

\* a mutant of confirm_cancel: the downloads are not stopped
confirm_cancel_no_stop(win, yes) ==
    IF ~yes THEN [win EXCEPT !.returned = "True"]
    ELSE LET i == IF win.interpreter # 0
                  THEN [win EXCEPT !.calls = @ \o <<"revert", "cleanup">>, !.ipc = "reverted"]
                  ELSE win
         IN  destroy(i)

\* a mutant of confirm_cancel: the downloads are stopped before the question
confirm_cancel_stops_first(win, yes) ==
    LET s == IF win.cancel_files_func # 0
             THEN [win EXCEPT !.calls = Append(@, "stop_all"),
                              !.boxes[win.cancel_files_func].state = "stopped"]
             ELSE win
    IN  IF ~yes THEN [s EXCEPT !.returned = "True"]
        ELSE destroy(IF s.interpreter # 0
                     THEN [s EXCEPT !.calls = @ \o <<"revert", "cleanup">>,
                                    !.ipc = "reverted"]
                     ELSE s)

\* confirm_cancel, lines 554-581; yes: the answer to the question
confirm_cancel(win, yes) ==
    IF ~yes THEN [win EXCEPT !.returned = "True"]
    ELSE LET s == IF win.cancel_files_func # 0
                  THEN [win EXCEPT !.calls = Append(@, "stop_all"),
                                   !.boxes[win.cancel_files_func].state = "stopped"]
                  ELSE win
             i == IF s.interpreter # 0
                  THEN [s EXCEPT !.calls = @ \o <<"revert", "cleanup">>, !.ipc = "reverted"]
                  ELSE s
         IN  destroy(i)

\* a mutant of on_destroy: the window is closed without looking at
\* install_in_progress
on_destroy_unconfirmed(win, yes) ==
    destroy(IF win.interpreter # 0
            THEN [win EXCEPT !.calls = Append(@, "cleanup")]
            ELSE win)

\* a mutant of on_destroy: the interpreter is not cleaned up before the close
on_destroy_no_cleanup(win, yes) ==
    IF win.install_in_progress
    THEN confirm_cancel(win, yes)
    ELSE destroy(win)

\* on_destroy, lines 524-532
on_destroy(win, yes) ==
    IF win.install_in_progress
    THEN confirm_cancel(win, yes)
    ELSE destroy(IF win.interpreter # 0
                 THEN [win EXCEPT !.calls = Append(@, "cleanup")]
                 ELSE win)

\* launch_game, lines 514-522
launch_game(win, yes) ==
    on_destroy([win EXCEPT !.play_sensitive = FALSE], yes)

-----------------------------------------------------------------------------
(* The events of the main loop. A handler runs to completion; the exception *)
(* it ends with, if any, is kept in raised until the next event.            *)

Open == w.stage = "open"

\* the window as an event finds it
Begin == [w EXCEPT !.raised = "none", !.returned = "None"]

\* the window as the event `name` leaves it
Done(name, win) == w' = [win EXCEPT !.last = name]

Frame == UNCHANGED <<installers, installers0, env, mvars, pvars, xvars, svars>>

\* the picker emits installer-selected with the version of one of the scripts
InstallerSelected ==
    /\ Open
    /\ w.screen = "picker"
    /\ \E i \in 1..Len(installers), yes \in BOOLEAN :
          Done(IF env.missing_dependency /\ yes THEN "dependency_yes"
               ELSE IF env.missing_dependency THEN "dependency_no"
               ELSE "on_installer_selected",
               on_installer_selected(Begin, installers[i]["version"], yes))
    /\ Frame

ClickInstall ==
    /\ Open
    /\ "install" \in w.visible
    /\ Done("on_install_clicked", on_install_clicked(Begin))
    /\ Frame

\* one queued callback: interpreter.launch_install or self.on_runners_ready
RunCallback(win, callback) ==
    IF callback = "launch_install"
    THEN [win EXCEPT !.ipc = "installing_runners"]
    ELSE on_runners_ready(win)

RECURSIVE RunCallbacks(_, _, _)
RunCallbacks(win, queue, i) ==
    IF i = 0 THEN win
    ELSE RunCallback(RunCallbacks(win, queue, i - 1), queue[i])

\* GLib dispatches the idle sources that are ready in one iteration of the main
\* loop, one after the other, when no event of higher priority is pending
IdleDispatch ==
    /\ Open
    /\ w.idle # <<>>
    /\ Done("idle", RunCallbacks([Begin EXCEPT !.idle = <<>>], w.idle, Len(w.idle)))
    /\ Frame

RECURSIVE Emit(_, _)
Emit(win, n) == IF n = 0 THEN win ELSE on_runners_ready(Emit(win, n - 1))

\* the interpreter emits runners-installed
RunnersInstalled ==
    /\ Open
    /\ w.ipc = "installing_runners"
    /\ Done("runners-installed",
            Emit([Begin EXCEPT !.ipc = "ready", !.log = Append(@, "runners-installed")],
                 w.signal_conn))
    /\ Frame

\* one handler of the continue button
RunHandler(win, h, denied) ==
    IF h.target = "on_extras_confirmed" THEN on_extras_confirmed(win)
    ELSE IF h.target = "on_files_confirmed" THEN on_files_confirmed(win, h.box, denied)
    ELSE win

\* the connected handlers run in the order of their connection
RECURSIVE RunHandlers(_, _, _)
RunHandlers(win, hs, denied) ==
    IF hs = {} THEN win
    ELSE LET h == CHOOSE x \in hs : \A y \in hs : x.id <= y.id
         IN  RunHandlers(RunHandler(win, h, denied), hs \ {h}, denied)

ClickContinue ==
    /\ Open
    /\ "continue" \in w.visible
    /\ w.continue_sensitive
    /\ w.handlers # {}
    /\ \E denied \in BOOLEAN :
          /\ \A h \in w.handlers :
                /\ h.target = "on_files_confirmed" => w.boxes[h.box].attempts < MaxAttempts
                /\ h.target = "on_extras_confirmed" => w.prepares + Len(w.idle) < MaxPrepares
          /\ Done("continue", RunHandlers(Begin, w.handlers, denied))
    /\ Frame

\* the file box reports whether every file has a source
FilesReady ==
    /\ Open
    /\ \E b \in DOMAIN w.boxes, ready \in BOOLEAN :
          /\ w.boxes[b].alive
          /\ w.boxes[b].state \in {"new", "downloading"}
          /\ Done("files-ready", on_files_ready(Begin, ready))
    /\ Frame

\* the file box reports that every file is there
FilesAvailable ==
    /\ Open
    /\ \E b \in DOMAIN w.boxes :
          /\ w.boxes[b].alive
          /\ w.boxes[b].state = "downloading"
          /\ Done("files-available", on_files_available(Begin, b))
    /\ Frame

\* a command of the script asks the user to choose
InputMenu ==
    /\ Open
    /\ w.ipc = "commands"
    /\ w.menus < MaxMenus
    /\ \E active \in BOOLEAN : Done("input_menu", input_menu(Begin, active))
    /\ Frame

\* on_input_menu_changed, lines 296-298
InputMenuChanged ==
    /\ Open
    /\ w.screen = "input"
    /\ \E active \in BOOLEAN :
          Done("on_input_menu_changed", [Begin EXCEPT !.continue_sensitive = active])
    /\ Frame

InstallFinished ==
    /\ Open
    /\ w.ipc = "commands"
    /\ \E game_id \in {0, 1} : Done("on_install_finished", on_install_finished(Begin, game_id))
    /\ Frame

InstallError ==
    /\ Open
    /\ w.ipc \in {"installing_runners", "commands"}
    /\ Done("on_install_error", on_install_error(Begin))
    /\ Frame

ClickCancel ==
    /\ Open
    /\ "cancel" \in w.visible
    /\ \E yes \in BOOLEAN :
          Done(IF yes THEN "cancel_yes" ELSE "cancel_no", confirm_cancel(Begin, yes))
    /\ Frame

ClickClose ==
    /\ Open
    /\ "close" \in w.visible
    /\ \E yes \in BOOLEAN : Done("on_destroy", on_destroy(Begin, yes))
    /\ Frame

ClickLaunch ==
    /\ Open
    /\ "play" \in w.visible
    /\ w.play_sensitive
    /\ \E yes \in BOOLEAN : Done("launch_game", launch_game(Begin, yes))
    /\ Frame

-----------------------------------------------------------------------------
(* An installer session *)

SessionScript(v) == [name |-> "x", runner |-> "x", version |-> v, description |-> "text"]

SessionInstallers ==
    { <<>>,
      <<SessionScript("v1")>>,
      <<SessionScript("v1"), SessionScript("v2")>>,
      <<SessionScript("v1"), SessionScript("v1")>> }

Environments ==
    [creates_game_folder : BOOLEAN,   \* installer.creates_game_folder
     missing_dependency : BOOLEAN,    \* ScriptInterpreter raises MissingGameDependency
     has_extras : BOOLEAN,            \* interpreter.get_extras() is not empty
     unavailable : BOOLEAN,           \* prepare_game_files raises UnavailableGame
     has_files : BOOLEAN,             \* installer.files is not empty
     box_ready : BOOLEAN]             \* InstallerFilesBox.is_ready when created

Init ==
    /\ MergeUnused
    /\ ProbeUnused
    /\ PickerUnused
    /\ ShortcutsUnused
    /\ installers \in SessionInstallers
    /\ installers0 = installers
    /\ env \in Environments
    /\ w = NoWindow

Next ==
    \/ Construct
    \/ InstallerSelected
    \/ ClickInstall
    \/ IdleDispatch
    \/ RunnersInstalled
    \/ ClickContinue
    \/ FilesReady
    \/ FilesAvailable
    \/ InputMenu
    \/ InputMenuChanged
    \/ InstallFinished
    \/ InstallError
    \/ ClickCancel
    \/ ClickClose
    \/ ClickLaunch

Spec == Init /\ [][Next]_vars

-----------------------------------------------------------------------------
(* Properties of the installer session *)

Downloading(win) == {b \in DOMAIN win.boxes : win.boxes[b].state = "downloading"}

\* C8: while the file-review screen is shown (until the files-available
\* signal), a cancel the user confirms calls stop_all of the file box, then
\* revert, then cleanup, and only then destroys the window; no cancel destroys
\* the window with a download still running.
C8_CancelStopsDownloads ==
    /\ [][(w.screen = "files" /\ w'.last = "cancel_yes" /\ w' # w)
            => /\ w'.calls = w.calls \o <<"stop_all", "revert", "cleanup", "destroy">>
               /\ w'.stage = "destroyed"
               /\ w.cancel_files_func \in DOMAIN w.boxes
               /\ w.boxes[w.cancel_files_func].alive
               /\ w'.boxes[w.cancel_files_func].state = "stopped"]_vars
    /\ []((w.stage = "destroyed" /\ w.last = "cancel_yes") => Downloading(w) = {})

\* a cancel confirmed after the downloads were started
C8_Witness ==
    /\ w.stage = "destroyed"
    /\ w.last = "cancel_yes"
    /\ w.calls = <<"stop_all", "revert", "cleanup", "destroy">>
    /\ \E b \in DOMAIN w.boxes : w.boxes[b].state = "stopped" /\ w.boxes[b].attempts = 1

\* C9: when start_all raises PermissionError, on_files_confirmed ends with a
\* ScriptingError, the continue button is shown and sensitive and its handler
\* is still on_files_confirmed for the same file box, and the file-review
\* screen stays.
C9_PermissionErrorAllowsRetry ==
    (w.raised = "ScriptingError: Unable to get files") =>
        /\ w.stage = "open"
        /\ w.screen = "files"
        /\ "continue" \in w.visible
        /\ w.continue_sensitive
        /\ \E h \in w.handlers :
              /\ h.id = w.continue_handler
              /\ h.target = "on_files_confirmed"
              /\ w.boxes[h.box].alive
              /\ w.boxes[h.box].attempts >= 1
              /\ w.cancel_files_func = h.box
        /\ Cardinality(w.handlers) = 1

\* the second click on Continue was refused as well
C9_Witness ==
    /\ w.raised = "ScriptingError: Unable to get files"
    /\ w.last = "continue"
    /\ \E b \in DOMAIN w.boxes : w.boxes[b].alive /\ w.boxes[b].attempts = 2

\* C11: when ScriptInterpreter raises MissingGameDependency the user is asked
\* once; a new installer window is opened exactly when the answer is YES; in
\* both cases this window is destroyed, its interpreter stays None and nothing
\* of it ever schedules or runs launch_install.
C11_MissingDependency ==
    /\ (w.last \in {"dependency_yes", "dependency_no"}) =>
          /\ env.missing_dependency
          /\ w.questions = 1
          /\ w.new_windows = (IF w.last = "dependency_yes" THEN 1 ELSE 0)
          /\ w.stage = "destroyed"
          /\ w.calls = <<"destroy">>
    /\ (env.missing_dependency /\ w.target_version # PyNone) =>
          w.last \in {"dependency_yes", "dependency_no"}
    /\ env.missing_dependency =>
          /\ w.interpreter = 0
          /\ w.ipc = "none"
          /\ w.idle = <<>>
          /\ w.signal_conn = 0
          /\ w.new_windows \in {0, 1}

\* the dependency was refused: the window is gone and no other was opened
C11_Witness ==
    /\ env.missing_dependency
    /\ w.last = "dependency_no"
    /\ w.target_version = "v2"
    /\ w.stage = "destroyed"
    /\ w.questions = 1
    /\ w.new_windows = 0

\* C12: a window holds at most one interpreter; it is bound to a script of the
\* installer list whose version is the selected one; once a version was
\* selected the picker is gone, and neither the interpreter nor the selected
\* version changes afterwards.
C12_OneActiveVariant ==
    /\ []((w.interpreter # 0) =>
            /\ w.interpreter \in 1..Len(installers)
            /\ installers[w.interpreter]["version"] = w.target_version)
    /\ []((w.target_version # PyNone) => w.screen # "picker")
    /\ []((w.interpreter = 0 /\ w.stage = "open") => w.screen \in {"empty", "picker"})
    /\ [][(w.target_version # PyNone) =>
            /\ w'.target_version = w.target_version
            /\ w'.interpreter = w.interpreter]_vars

\* the second variant of two was selected and the installation went on
C12_Witness ==
    /\ Len(installers) = 2
    /\ w.interpreter = 2
    /\ w.target_version = "v2"
    /\ w.ipc = "commands"
    /\ w.screen # "picker"

\* every occurrence of step b in the log has a step a before it
Before(a, b) ==
    \A i \in DOMAIN w.log :
        (w.log[i] = b) => \E j \in 1..(i - 1) : w.log[j] = a

\* C13: launch_install is scheduled only after a script was selected;
\* prepare_game_files is called only after runners-installed and, when extras
\* are offered, after the user confirmed a selection; launch_installer_commands
\* is called only after prepare_game_files and, when the installer has files,
\* only after files-available; on_install_finished never comes before
\* launch_installer_commands.
C13_WizardOrdering ==
    /\ Before("ScriptInterpreter", "idle_add launch_install")
    /\ Before("idle_add launch_install", "runners-installed")
    /\ Before("runners-installed", "prepare_game_files")
    /\ env.has_extras => Before("on_extras_confirmed", "prepare_game_files")
    /\ Before("prepare_game_files", "launch_installer_commands")
    /\ env.has_files =>
          \A i \in DOMAIN w.log :
              (w.log[i] = "launch_installer_commands") =>
                  i > 1 /\ w.log[i - 1] = "files-available"
    /\ Before("launch_installer_commands", "on_install_finished")
    /\ (w.prepares > 0) <=> (\E i \in DOMAIN w.log : w.log[i] = "prepare_game_files")
    /\ (w.launches > 0) <=> (\E i \in DOMAIN w.log : w.log[i] = "launch_installer_commands")

\* an installation with extras and files that went through every step
C13_Witness ==
    /\ env.has_extras
    /\ env.has_files
    /\ w.log = <<"ScriptInterpreter", "idle_add launch_install", "runners-installed",
                 "on_extras_confirmed", "prepare_game_files", "files-available",
                 "launch_installer_commands", "on_install_finished">>

\* the status label shows an error and the installation is not over
ErrorShown(win) == win.stage = "open" /\ win.status = "error" /\ win.install_in_progress

\* C14: on_install_error calls no method of the interpreter and leaves
\* install_in_progress as it is; after an error of an installation in progress
\* install_in_progress is true, the status text is the error message and the
\* close and launch buttons are hidden; from that state the window is closed
\* only by a cancel the user confirms.
C14_ErrorHalts ==
    /\ [][(w'.last = "on_install_error") =>
            /\ w'.install_in_progress = w.install_in_progress
            /\ w'.status = "error"
            /\ w'.stage = "open"
            /\ w'.screen = "empty"
            /\ w'.interpreter = w.interpreter
            /\ w'.log = w.log
            /\ w'.calls = w.calls
            /\ w'.idle = w.idle
            /\ w'.launches = w.launches
            /\ w'.prepares = w.prepares
            /\ w'.visible = w.visible
            /\ w'.handlers = w.handlers]_vars
    /\ []((w.last = "on_install_error" /\ w.install_in_progress) =>
            /\ ErrorShown(w)
            /\ "close" \notin w.visible
            /\ "play" \notin w.visible
            /\ "cancel" \in w.visible)
    /\ [][(ErrorShown(w) /\ w'.stage = "destroyed") =>
            /\ w'.last = "cancel_yes"
            /\ w'.calls = w.calls \o <<"revert", "cleanup", "destroy">>]_vars

\* a command failed, the user refused to cancel, then cancelled
C14_Witness ==
    /\ w.stage = "destroyed"
    /\ w.last = "cancel_yes"
    /\ w.status = "error"
    /\ w.ipc = "reverted"
    /\ w.launches = 1
    /\ w.install_in_progress

-----------------------------------------------------------------------------
(* The discovery functions of sysoptions.py *)

\* bounds
MaxLoaders == 2
MaxDisplays == 2

\* `sub in s` of Python strings
Contains(s, sub) ==
    \E i \in 1..(Len(s) - Len(sub) + 1) : SubSeq(s, i, i + Len(sub) - 1) = sub

\* sep.join(strings)
RECURSIVE Join(_, _)
Join(strings, sep) ==
    IF strings = <<>> THEN ""
    ELSE IF Len(strings) = 1 THEN strings[1]
    ELSE strings[1] \o sep \o Join(Tail(strings), sep)

Digits == <<"0", "1", "2", "3", "4", "5", "6", "7", "8", "9">>

\* str(n) of a natural number
RECURSIVE Str(_)
Str(n) == IF n < 10 THEN Digits[n + 1] ELSE Str(n \div 10) \o Digits[(n % 10) + 1]

\* list(zip(xs, xs))
ZipSelf(xs) == [i \in DOMAIN xs |-> <<xs[i], xs[i]>>]

\* list.insert(i, x) with 0 <= i <= len(list)
Insert(list, i, x) == SubSeq(list, 1, i) \o <<x>> \o SubSeq(list, i + 1, Len(list))

\* lines 12-20
VULKAN_DATA_DIRS ==
    << "/usr/local/etc/vulkan",
       "/usr/local/share/vulkan",
       "/etc/vulkan",
       "/usr/share/vulkan",
       "/usr/lib/x86_64-linux-gnu/GL/vulkan",
       "/usr/lib/i386-linux-gnu/GL/vulkan",
       "/opt/amdgpu-pro/etc/vulkan" >>

\* get_resolution_choices, lines 23-30
get_resolution_choices(resolutions) ==
    Insert(ZipSelf(resolutions), 0, <<"Keep current", "off">>)

\* get_output_choices, lines 33-39
get_output_choices(displays) ==
    Insert(Insert(ZipSelf(displays), 0, <<"Off", "off">>), 1, <<"Primary", "primary">>)

\* a mutant of get_output_list: the outputs are numbered from one
get_output_list_from_one(displays) ==
    <<<<"Off", "off">>>> \o [i \in DOMAIN displays |-> <<displays[i], Str(i)>>]

\* get_output_list, lines 42-52: enumerate() counts from zero
get_output_list(displays) ==
    <<<<"Off", "off">>>> \o [i \in DOMAIN displays |-> <<displays[i], Str(i - 1)>>]

\* a mutant of get_optirun_choices: the list starts empty
get_optirun_choices_no_sentinel(executables) ==
    (IF "primusrun" \in executables THEN <<<<"primusrun", "primusrun">>>> ELSE <<>>)
    \o (IF "optirun" \in executables THEN <<<<"optirun/virtualgl", "optirun">>>> ELSE <<>>)
    \o (IF "pvkrun" \in executables THEN <<<<"primus vk", "pvkrun">>>> ELSE <<>>)

\* get_optirun_choices, lines 55-64; executables: the names find_executable finds
get_optirun_choices(executables) ==
    <<<<"Off", "off">>>>
    \o (IF "primusrun" \in executables THEN <<<<"primusrun", "primusrun">>>> ELSE <<>>)
    \o (IF "optirun" \in executables THEN <<<<"optirun/virtualgl", "optirun">>>> ELSE <<>>)
    \o (IF "pvkrun" \in executables THEN <<<<"primus vk", "pvkrun">>>> ELSE <<>>)

\* get_gpu_vendor_cmd, lines 67-73
get_gpu_vendor_cmd(is_nvidia, USE_DRI_PRIME) ==
    IF is_nvidia
    THEN "__GLX_VENDOR_LIBRARY_NAME=nvidia glxinfo | grep -i opengl | grep -i vendor"
    ELSE IF USE_DRI_PRIME
    THEN "DRI_PRIME=1 glxinfo | grep -i opengl | grep -i vendor"
    ELSE "glxinfo | grep -i opengl | grep -i vendor"

\* os.path.join(data_dir, "icd.d", name): a path glob returns
LoaderPath(file) == VULKAN_DATA_DIRS[file.dir] \o "/icd.d/" \o file.name

\* glob.glob(path), line 88: the files of one directory, as full paths
Glob(listing, d) ==
    LET Here(file) == file.dir = d
        files == SelectSeq(listing, Here)
    IN  [i \in DOMAIN files |-> LoaderPath(files[i])]

\* the loaders in the order the two loops of lines 86-88 meet them
RECURSIVE ScanFrom(_, _)
ScanFrom(listing, d) ==
    IF d > Len(VULKAN_DATA_DIRS) THEN <<>>
    ELSE Glob(listing, d) \o ScanFrom(listing, d + 1)

\* os.path.basename(loader)
RECURSIVE Basename(_)
Basename(path) ==
    IF Contains(path, "/")
    THEN Basename(SubSeq(path, 2, Len(path)))
    ELSE path

\* a mutant of lines 91-101: the tests look at the file name only
ClassOfName(loader) ==
    LET name == Basename(loader)
    IN  IF Contains(name, "intel") THEN "intel"
        ELSE IF Contains(name, "radeon") THEN "amdradv"
        ELSE IF Contains(name, "nvidia") THEN "nvidia"
        ELSE IF Contains(name, "amd")
        THEN (IF Contains(name, "pro") THEN "amdvlkpro" ELSE "amdvlk")
        ELSE "none"

\* lines 91-101: the list a loader is appended to; the tests look at the path
ClassOf(loader) ==
    IF Contains(loader, "intel") THEN "intel"
    ELSE IF Contains(loader, "radeon") THEN "amdradv"
    ELSE IF Contains(loader, "nvidia") THEN "nvidia"
    ELSE IF Contains(loader, "amd")
    THEN (IF Contains(loader, "pro") THEN "amdvlkpro" ELSE "amdvlk")
    ELSE "none"

\* the list of one class after the loops
Loaders(listing, class) ==
    LET Is(loader) == ClassOf(loader) = class
    IN  SelectSeq(ScanFrom(listing, 1), Is)

Sentinel == <<"Auto: WARNING -- No Vulkan Loader detected!", "">>

\* a mutant of the first entry: the vendors are tested in the order NVIDIA,
\* AMD, Intel
AutoChoice_nvidia_first(default_gpu, intel_files, amdradv_files, nvidia_files) ==
    IF Contains(default_gpu, "NVIDIA")
    THEN <<"Auto: Nvidia Proprietary", nvidia_files>>
    ELSE IF Contains(default_gpu, "AMD")
    THEN <<"Auto: AMD RADV Open Source (MESA: RADV)", amdradv_files>>
    ELSE IF Contains(default_gpu, "Intel")
    THEN <<"Auto: Intel Open Source (MESA: ANV)", intel_files>>
    ELSE <<"Auto: WARNING -- No Vulkan Loader detected!", "">>

\* lines 113-119: the first entry
AutoChoice(default_gpu, intel_files, amdradv_files, nvidia_files) ==
    IF Contains(default_gpu, "Intel")
    THEN <<"Auto: Intel Open Source (MESA: ANV)", intel_files>>
    ELSE IF Contains(default_gpu, "AMD")
    THEN <<"Auto: AMD RADV Open Source (MESA: RADV)", amdradv_files>>
    ELSE IF Contains(default_gpu, "NVIDIA")
    THEN <<"Auto: Nvidia Proprietary", nvidia_files>>
    ELSE Sentinel

\* lines 121-133: the entries of the classes that have files
LoaderChoices(intel_files, amdradv_files, nvidia_files, amdvlk_files, amdvlkpro_files) ==
    (IF intel_files # "" THEN <<<<"Intel Open Source (MESA: ANV)", intel_files>>>> ELSE <<>>)
    \o (IF amdradv_files # ""
        THEN <<<<"AMD RADV Open Source (MESA: RADV)", amdradv_files>>>> ELSE <<>>)
    \o (IF nvidia_files # "" THEN <<<<"Nvidia Proprietary", nvidia_files>>>> ELSE <<>>)
    \o (IF amdvlk_files # ""
        THEN (IF amdvlkpro_files = ""
              THEN <<<<"AMDVLK/AMDGPU-PRO Proprietary", amdvlk_files>>>>
              ELSE <<<<"AMDVLK Open source", amdvlk_files>>>>)
        ELSE <<>>)
    \o (IF amdvlkpro_files # ""
        THEN <<<<"AMDGPU-PRO Proprietary", amdvlkpro_files>>>> ELSE <<>>)

\* a mutant of get_vk_icd_choices: the entry of the detected vendor follows the
\* sentinel instead of replacing it
get_vk_icd_choices_keeps_sentinel(listing, glxvendor) ==
    LET intel_files == Join(Loaders(listing, "intel"), ":")
        amdradv_files == Join(Loaders(listing, "amdradv"), ":")
        nvidia_files == Join(Loaders(listing, "nvidia"), ":")
        amdvlk_files == Join(Loaders(listing, "amdvlk"), ":")
        amdvlkpro_files == Join(Loaders(listing, "amdvlkpro"), ":")
        auto == AutoChoice(glxvendor, intel_files, amdradv_files, nvidia_files)
    IN  <<Sentinel>> \o (IF auto = Sentinel THEN <<>> ELSE <<auto>>)
        \o LoaderChoices(intel_files, amdradv_files, nvidia_files, amdvlk_files,
                         amdvlkpro_files)

\* get_vk_icd_choices, lines 76-134; glxvendor: what the vendor command printed
get_vk_icd_choices(listing, glxvendor) ==
    LET intel_files == Join(Loaders(listing, "intel"), ":")
        amdradv_files == Join(Loaders(listing, "amdradv"), ":")
        nvidia_files == Join(Loaders(listing, "nvidia"), ":")
        amdvlk_files == Join(Loaders(listing, "amdvlk"), ":")
        amdvlkpro_files == Join(Loaders(listing, "amdvlkpro"), ":")
    IN  <<AutoChoice(glxvendor, intel_files, amdradv_files, nvidia_files)>>
        \o LoaderChoices(intel_files, amdradv_files, nvidia_files, amdvlk_files,
                         amdvlkpro_files)

-----------------------------------------------------------------------------
(* The option list of sysoptions.py as the import of the module builds it.  *)
(* A descriptor is a record whose fields are the keys of the dict. Help     *)
(* texts are cut to their first words; a value that a collaborator computes *)
(* is kept as the text of its expression.                                   *)

\* system_options, lines 137-326: the descriptors from game_path to gamemode
system_options_head(m) ==
    <<
      \* lines 138-145
      [option |-> "game_path", type |-> "directory_chooser",
       label |-> "Default installation folder", default |-> "os.path.expanduser('~/Games')",
       scope |-> <<"runner", "system">>, help |-> "The default folder where you install you"],
      \* lines 146-158
      [option |-> "disable_runtime", type |-> "bool", label |-> "Disable Lutris Runtime",
       default |-> FALSE, help |-> "The Lutris Runtime loads some libraries"],
      \* lines 159-166
      [option |-> "prefer_system_libs", type |-> "bool", label |-> "Prefer system libraries",
       default |-> TRUE, help |-> "When the runtime is enabled, prioritize"],
      \* lines 167-175
      [option |-> "reset_desktop", type |-> "bool", label |-> "Restore resolution on game exit",
       default |-> FALSE, help |-> "Some games don't restore your screen res"],
      \* lines 176-185
      [option |-> "gamescope", type |-> "bool", label |-> "Enable gamescope", default |-> FALSE,
       advanced |-> TRUE,
       condition |-> "bool(system.find_executable('gamescope')) and linux.LINUX_SYSTEM.nvidia_gamescope_support()",
       help |-> "Use gamescope to draw the game window is"],
      \* lines 186-194
      [option |-> "gamescope_output_res", type |-> "string",
       label |-> "Gamescope output resolution", default |-> FALSE, advanced |-> TRUE,
       condition |-> "bool(system.find_executable('gamescope'))",
       help |-> "Resolution of the window on your desktop"],
      \* lines 195-203
      [option |-> "gamescope_game_res", type |-> "string", label |-> "Gamescope game resolution",
       default |-> FALSE, advanced |-> TRUE,
       condition |-> "bool(system.find_executable('gamescope'))",
       help |-> "Resolution of the screen visible to the"],
      \* lines 204-211
      [option |-> "single_cpu", type |-> "bool", label |-> "Restrict number of cores used",
       advanced |-> TRUE, default |-> FALSE, help |-> "Restrict the game to a maximum number of"],
      \* lines 212-219
      [option |-> "limit_cpu_count", type |-> "string", label |-> "Restrict number of cores to",
       advanced |-> TRUE, default |-> "1", help |-> "Maximum number of CPU cores to be used,"],
      \* lines 220-228
      [option |-> "restore_gamma", type |-> "bool", default |-> FALSE,
       label |-> "Restore gamma on game exit", advanced |-> TRUE,
       help |-> "Some games don't correctly restores gamm"],
      \* lines 229-237
      [option |-> "disable_compositor", label |-> "Disable desktop effects", type |-> "bool",
       default |-> FALSE, advanced |-> TRUE, help |-> "Disable desktop effects while game is ru"],
      \* lines 238-248
      [option |-> "disable_screen_saver", label |-> "Disable screen saver", type |-> "bool",
       default |-> "SCREEN_SAVER_INHIBITOR is not None", advanced |-> FALSE,
       condition |-> "SCREEN_SAVER_INHIBITOR is not None",
       help |-> "Disable the screen saver while a game is"],
      \* lines 249-257
      [option |-> "reset_pulse", type |-> "bool", label |-> "Reset PulseAudio",
       default |-> FALSE, advanced |-> TRUE,
       condition |-> "system.find_executable('pulseaudio')",
       help |-> "Restart PulseAudio before launching the"],
      \* lines 258-267
      [option |-> "pulse_latency", type |-> "bool", label |-> "Reduce PulseAudio latency",
       default |-> FALSE, advanced |-> TRUE,
       condition |-> "system.find_executable('pulseaudio') or system.find_executable('pipewire-pulse')",
       help |-> "Set the environment variable PULSE_LATEN"],
      \* lines 268-275
      [option |-> "use_us_layout", type |-> "bool", label |-> "Switch to US keyboard layout",
       default |-> FALSE, advanced |-> TRUE, help |-> "Switch to US keyboard QWERTY layout whil"],
      \* lines 276-289
      [option |-> "optimus", type |-> "choice", default |-> "off",
       choices |-> "get_optirun_choices", label |-> "Optimus launcher (NVIDIA Optimus laptops)",
       advanced |-> TRUE, help |-> "If you have installed the primus or bumb"],
      \* lines 290-301
      [option |-> "vk_icd", type |-> "choice",
       default |-> get_vk_icd_choices(m.listing, m.glxvendor)[1][2],
       choices |-> "get_vk_icd_choices", label |-> "Vulkan ICD loader", advanced |-> TRUE,
       help |-> "The ICD loader is a library that is plac"],
      \* lines 302-309
      [option |-> "mangohud", type |-> "bool", label |-> "FPS counter (MangoHud)",
       default |-> FALSE, condition |-> "bool(system.find_executable('mangohud'))",
       help |-> "Display the game's FPS + other informati"],
      \* lines 310-318
      [option |-> "fps_limit", type |-> "string", size |-> "small", label |-> "FPS limit",
       advanced |-> TRUE, condition |-> "bool(system.find_executable('strangle'))",
       help |-> "Limit the game's FPS to desired number"],
      \* lines 319-326
      [option |-> "gamemode", type |-> "bool",
       default |-> "linux.LINUX_SYSTEM.gamemode_available()",
       condition |-> "linux.LINUX_SYSTEM.gamemode_available()",
       label |-> "Enable Feral GameMode", help |-> "Request a set of optimisations be tempor"],
      \* lines 327-338
      [option |-> "prime", type |-> "bool", default |-> FALSE, condition |-> TRUE,
       label |-> "Enable NVIDIA Prime Render Offload",
       help |-> "If you have the latest NVIDIA driver and"]
    >>

\* system_options, lines 327-521: the descriptors from prime to xephyr_fullscreen
system_options_tail(m) ==
    <<
      \* lines 339-350
      [option |-> "dri_prime", type |-> "bool", default |-> m.USE_DRI_PRIME,
       condition |-> m.USE_DRI_PRIME, label |-> "Use discrete graphics", advanced |-> TRUE,
       help |-> "If you have open source graphic drivers"],
      \* lines 351-361
      [option |-> "sdl_video_fullscreen", type |-> "choice",
       label |-> "SDL 1.2 Fullscreen Monitor", choices |-> "get_output_list", default |-> "off",
       advanced |-> TRUE, help |-> "Hint SDL 1.2 games to use a specific mon"],
      \* lines 362-374
      [option |-> "display", type |-> "choice", label |-> "Turn off monitors except",
       choices |-> "get_output_choices",
       condition |-> "linux.LINUX_SYSTEM.display_server != 'wayland'", default |-> "off",
       advanced |-> TRUE, help |-> "Only keep the selected screen active whi"],
      \* lines 375-383
      [option |-> "resolution", type |-> "choice", label |-> "Switch resolution to",
       choices |-> "get_resolution_choices",
       condition |-> "linux.LINUX_SYSTEM.display_server != 'wayland'", default |-> "off",
       help |-> "Switch to this screen resolution while t"],
      \* lines 384-392
      [option |-> "terminal", label |-> "CLI mode", type |-> "bool", default |-> FALSE,
       advanced |-> TRUE, help |-> "Enable a terminal for text-based games."],
      \* lines 393-403
      [option |-> "terminal_app", label |-> "Text based games emulator",
       type |-> "choice_with_entry", choices |-> "linux.get_terminal_apps",
       default |-> "linux.get_default_terminal()", advanced |-> TRUE,
       help |-> "The terminal emulator used with the CLI"],
      \* lines 404-409
      [option |-> "env", type |-> "mapping", label |-> "Environment variables",
       help |-> "Environment variables loaded at run time"],
      \* lines 410-416
      [option |-> "antimicro_config", type |-> "file", label |-> "AntiMicroX Profile",
       advanced |-> TRUE, help |-> "Path to an AntiMicroX profile file"],
      \* lines 417-424
      [option |-> "prefix_command", type |-> "string", label |-> "Command prefix",
       advanced |-> TRUE, help |-> "Command line instructions to add in fron"],
      \* lines 425-431
      [option |-> "manual_command", type |-> "file", label |-> "Manual script",
       advanced |-> TRUE, help |-> "Script to execute from the game's contex"],
      \* lines 432-438
      [option |-> "prelaunch_command", type |-> "file", label |-> "Pre-launch script",
       advanced |-> TRUE, help |-> "Script to execute before the game starts"],
      \* lines 439-446
      [option |-> "prelaunch_wait", type |-> "bool",
       label |-> "Wait for pre-launch script completion", advanced |-> TRUE, default |-> FALSE,
       help |-> "Run the game only once the pre-launch sc"],
      \* lines 447-453
      [option |-> "postexit_command", type |-> "file", label |-> "Post-exit script",
       advanced |-> TRUE, help |-> "Script to execute when the game exits"],
      \* lines 454-463
      [option |-> "include_processes", type |-> "string", label |-> "Include processes",
       advanced |-> TRUE, help |-> "What processes to include in process mon"],
      \* lines 464-474
      [option |-> "exclude_processes", type |-> "string", label |-> "Exclude processes",
       advanced |-> TRUE, help |-> "What processes to exclude in process mon"],
      \* lines 475-483
      [option |-> "killswitch", type |-> "string", label |-> "Killswitch file",
       advanced |-> TRUE, help |-> "Path to a file which will stop the game"],
      \* lines 484-491
      [option |-> "sdl_gamecontrollerconfig", type |-> "string",
       label |-> "SDL2 gamepad mapping", advanced |-> TRUE,
       help |-> "SDL_GAMECONTROLLERCONFIG mapping string"],
      \* lines 492-505
      [option |-> "xephyr", label |-> "Use Xephyr", type |-> "choice",
       choices |-> <<<<"Off", "off">>, <<"8BPP (256 colors)", "8bpp">>, <<"16BPP (65536 colors)", "16bpp">>, <<"24BPP (16M colors)", "24bpp">>>>,
       default |-> "off", advanced |-> TRUE, help |-> "Run program in Xephyr to support 8BPP an"],
      \* lines 506-512
      [option |-> "xephyr_resolution", type |-> "string", label |-> "Xephyr resolution",
       advanced |-> TRUE, help |-> "Screen resolution of the Xephyr server"],
      \* lines 513-520
      [option |-> "xephyr_fullscreen", type |-> "bool", label |-> "Xephyr Fullscreen",
       default |-> TRUE, advanced |-> TRUE, help |-> "Open Xephyr in fullscreen (at the deskto"]
    >>

\* a mutant of the list: the first descriptors are listed twice
system_options_repeated(m) == system_options_head(m) \o system_options_head(m)

\* system_options, lines 137-521
system_options_list(m) == system_options_head(m) \o system_options_tail(m)

-----------------------------------------------------------------------------
(* The machines the discovery functions are called on *)

LoaderNames ==
    { "intel_icd.x86_64.json", "radeon_icd.x86_64.json", "nvidia_icd.json",
      "amd_icd64.json", "lvp_icd.x86_64.json" }

\* the directories of VULKAN_DATA_DIRS that hold files: /etc/vulkan,
\* /usr/share/vulkan and /opt/amdgpu-pro/etc/vulkan; the others are absent
PopulatedDirs == {3, 4, 7}

LoaderFiles == [dir : PopulatedDirs, name : LoaderNames]

\* the files glob meets, directory by directory, in the order glob gives them
Listings ==
    { l \in SeqsUpTo(LoaderFiles, MaxLoaders) :
        /\ \A i, j \in DOMAIN l : i < j => l[i].dir <= l[j].dir
        /\ \A i, j \in DOMAIN l : i # j => l[i] # l[j] }

\* what `glxinfo | grep -i opengl | grep -i vendor` prints, stderr included
VendorOutputs ==
    { "",
      "/bin/sh: 1: glxinfo: not found",
      "OpenGL vendor string: Intel",
      "OpenGL vendor string: AMD",
      "OpenGL vendor string: NVIDIA Corporation" }

\* outputs that name two vendors, the one of lower priority first
TwoVendorOutputs ==
    { "OpenGL vendor string: NVIDIA Corporation\nOpenGL vendor string: Intel",
      "OpenGL vendor string: NVIDIA Corporation\nOpenGL vendor string: AMD" }

Executables == {"primusrun", "optirun", "pvkrun"}

DisplayNames == {"eDP-1", "HDMI-1"}

Resolutions == {"1920x1080", "1280x720"}

BareMachine ==
    [executables |-> {}, listing |-> <<>>, glxvendor |-> "", USE_DRI_PRIME |-> FALSE,
     displays |-> <<>>, resolutions |-> <<>>]

Machines ==
    { [BareMachine EXCEPT !.listing = l, !.glxvendor = g] :
        l \in Listings, g \in VendorOutputs }
    \cup { [BareMachine EXCEPT !.listing = l, !.glxvendor = g] :
            l \in { k \in Listings : \A i \in DOMAIN k : k[i].dir = 4 },
            g \in TwoVendorOutputs }
    \cup { [BareMachine EXCEPT !.listing = l, !.USE_DRI_PRIME = TRUE] : l \in Listings }
    \cup { [BareMachine EXCEPT !.executables = e] : e \in SUBSET Executables }
    \cup { [BareMachine EXCEPT !.displays = d, !.resolutions = r] :
            d \in SeqsUpTo(DisplayNames, MaxDisplays),
            r \in SeqsUpTo(Resolutions, MaxDisplays) }

VendorClasses == {"intel", "amdradv", "nvidia", "amdvlk", "amdvlkpro"}

NoCall == [fn |-> "none", cmd |-> "", lists |-> <<>>, value |-> <<>>]

PInit ==
    /\ MergeUnused
    /\ installers = <<>>
    /\ installers0 = <<>>
    /\ env = <<>>
    /\ w = NoWindow
    /\ machine \in Machines
    /\ probe = NoCall
    /\ PickerUnused
    /\ ShortcutsUnused

Returned(fn, value) ==
    /\ probe' = [NoCall EXCEPT !.fn = fn, !.value = value]
    /\ UNCHANGED <<machine, mvars, ivars, xvars, svars>>

Call_get_resolution_choices ==
    Returned("get_resolution_choices", get_resolution_choices(machine.resolutions))

Call_get_output_choices ==
    Returned("get_output_choices", get_output_choices(machine.displays))

Call_get_output_list ==
    Returned("get_output_list", get_output_list(machine.displays))

Call_get_optirun_choices ==
    Returned("get_optirun_choices", get_optirun_choices(machine.executables))

Call_get_vk_icd_choices ==
    /\ probe' = [fn |-> "get_vk_icd_choices",
                 cmd |-> get_gpu_vendor_cmd(Loaders(machine.listing, "nvidia") # <<>>,
                                            machine.USE_DRI_PRIME),
                 lists |-> [c \in VendorClasses |-> Loaders(machine.listing, c)],
                 value |-> get_vk_icd_choices(machine.listing, machine.glxvendor)]
    /\ UNCHANGED <<machine, mvars, ivars, xvars, svars>>

\* the import of the module: the list is built, get_vk_icd_choices is called
\* for the default of vk_icd (line 293)
Import ==
    /\ probe.fn = "none"
    /\ probe' = [NoCall EXCEPT !.fn = "import", !.value = system_options_list(machine)]
    /\ UNCHANGED <<machine, mvars, ivars, xvars, svars>>

PNext ==
    \/ Import
    \/ Call_get_resolution_choices
    \/ Call_get_output_choices
    \/ Call_get_output_list
    \/ Call_get_optirun_choices
    \/ Call_get_vk_icd_choices

SpecProbe == PInit /\ [][PNext]_vars

-----------------------------------------------------------------------------
(* Properties of the discovery functions *)

Called(fn) == probe.fn = fn

\* the vendor command named one of the three vendors
VendorDetected ==
    \E v \in {"Intel", "AMD", "NVIDIA"} : Contains(machine.glxvendor, v)

\* a loader file of one of the five classes was found
LoaderFound == \E c \in VendorClasses : Loaders(machine.listing, c) # <<>>

ClassOrder == <<"intel", "amdradv", "nvidia", "amdvlk", "amdvlkpro">>

\* the classes that have loader files, in that order
ClassesFound ==
    LET Has(c) == probe.lists[c] # <<>>
    IN  SelectSeq(ClassOrder, Has)

\* the class of the vendor the command named: Intel before AMD before NVIDIA
DetectedClass ==
    IF Contains(machine.glxvendor, "Intel") THEN "intel"
    ELSE IF Contains(machine.glxvendor, "AMD") THEN "amdradv"
    ELSE IF Contains(machine.glxvendor, "NVIDIA") THEN "nvidia"
    ELSE "none"

IsAuto(choice) == SubSeq(choice[1], 1, 6) = "Auto: "

\* C16 as it is stated: the list starts with the sentinel entry, the 'Auto'
\* entry of a detected vendor comes second, the loader entries follow.
C16_SentinelFirst ==
    Called("get_vk_icd_choices") =>
        /\ probe.value[1] = Sentinel
        /\ VendorDetected =>
              /\ Len(probe.value) >= 2
              /\ IsAuto(probe.value[2])
              /\ probe.value[2][2] = Join(probe.lists[DetectedClass], ":")

\* C16, amended: the list has one leading 'Auto' entry: the entry of the
\* detected vendor, which replaces the sentinel, or else the sentinel; then
\* comes one entry for every class that has loader files, in the order Intel,
\* RADV, NVIDIA, AMDVLK, AMDGPU-PRO, the class of the detected vendor included.
C16_AutoReplacesSentinel ==
    Called("get_vk_icd_choices") =>
        /\ Len(probe.value) = 1 + Len(ClassesFound)
        /\ IsAuto(probe.value[1])
        /\ \A i \in 2..Len(probe.value) :
              /\ ~IsAuto(probe.value[i])
              /\ probe.value[i][2] = Join(probe.lists[ClassesFound[i - 1]], ":")
              /\ probe.value[i][2] # ""
        /\ IF VendorDetected
           THEN /\ probe.value[1] # Sentinel
                /\ probe.value[1][2] = Join(probe.lists[DetectedClass], ":")
                /\ \A i \in DOMAIN probe.value : probe.value[i][1] # Sentinel[1]
           ELSE probe.value[1] = Sentinel

\* Intel is detected and has a loader: its files are listed twice, no sentinel
C16_Witness ==
    /\ Called("get_vk_icd_choices")
    /\ machine.glxvendor = "OpenGL vendor string: Intel"
    /\ probe.value =
          << <<"Auto: Intel Open Source (MESA: ANV)",
               "/usr/share/vulkan/icd.d/intel_icd.x86_64.json">>,
             <<"Intel Open Source (MESA: ANV)",
               "/usr/share/vulkan/icd.d/intel_icd.x86_64.json">>,
             <<"AMD RADV Open Source (MESA: RADV)",
               "/usr/share/vulkan/icd.d/radeon_icd.x86_64.json">> >>

\* C17: for n resolutions get_resolution_choices returns n+1 pairs, the first
\* of value "off", then (r, r) in the order of the display manager; for n
\* display names get_output_choices returns n+2 pairs of values "off",
\* "primary" and then each name in order, and get_output_list returns n+1
\* pairs, "off" first and then (name_i, str(i)) for i = 0..n-1.
C17_Enumeration ==
    /\ Called("get_resolution_choices") =>
          /\ Len(probe.value) = Len(machine.resolutions) + 1
          /\ probe.value[1] = <<"Keep current", "off">>
          /\ \A i \in DOMAIN machine.resolutions :
                probe.value[i + 1] = <<machine.resolutions[i], machine.resolutions[i]>>
    /\ Called("get_output_choices") =>
          /\ Len(probe.value) = Len(machine.displays) + 2
          /\ probe.value[1] = <<"Off", "off">>
          /\ probe.value[2] = <<"Primary", "primary">>
          /\ \A i \in DOMAIN machine.displays :
                probe.value[i + 2] = <<machine.displays[i], machine.displays[i]>>
    /\ Called("get_output_list") =>
          /\ Len(probe.value) = Len(machine.displays) + 1
          /\ probe.value[1] = <<"Off", "off">>
          /\ \A i \in 0..(Len(machine.displays) - 1) :
                probe.value[i + 2] = <<machine.displays[i + 1], Digits[i + 1]>>

\* two outputs, numbered "0" and "1" in the order of the display manager
C17_Witness ==
    /\ Called("get_output_list")
    /\ machine.displays = <<"HDMI-1", "eDP-1">>
    /\ probe.value = << <<"Off", "off">>, <<"HDMI-1", "0">>, <<"eDP-1", "1">> >>

\* the classes whose list holds the path of a file
ListedIn(file) ==
    { c \in VendorClasses :
        \E k \in DOMAIN probe.lists[c] : probe.lists[c][k] = LoaderPath(file) }

FilesFound == {machine.listing[i] : i \in DOMAIN machine.listing}

UnderAmdgpuPro(file) == VULKAN_DATA_DIRS[file.dir] = "/opt/amdgpu-pro/etc/vulkan"

NamesOtherVendor(file) ==
    \E v \in {"intel", "radeon", "nvidia"} : Contains(file.name, v)

\* C18 as it is stated: a file is in at most one class and the class depends
\* on the file name only, so files of the same name are classified alike.
C18_ClassByFileName ==
    Called("get_vk_icd_choices") =>
        /\ \A f \in FilesFound : Cardinality(ListedIn(f)) <= 1
        /\ \A f, g \in FilesFound : (f.name = g.name) => ListedIn(f) = ListedIn(g)

\* C18, amended: a file is in at most one class; the class is decided by
\* substrings of the whole path, so files of the same name are classified
\* alike unless one of them lies under /opt/amdgpu-pro/etc/vulkan, where every
\* file that names neither intel, radeon nor nvidia is AMDGPU-PRO.
C18_ClassByPath ==
    Called("get_vk_icd_choices") =>
        /\ \A f \in FilesFound : Cardinality(ListedIn(f)) <= 1
        /\ \A f, g \in FilesFound :
              (f.name = g.name /\ UnderAmdgpuPro(f) = UnderAmdgpuPro(g))
                  => ListedIn(f) = ListedIn(g)
        /\ \A f \in FilesFound :
              (UnderAmdgpuPro(f) /\ ~NamesOtherVendor(f)) => ListedIn(f) = {"amdvlkpro"}
        /\ \A f \in FilesFound :
              (~UnderAmdgpuPro(f) /\ ~Contains(f.name, "pro")) => "amdvlkpro" \notin ListedIn(f)

\* amd_icd64.json is AMDVLK under /etc/vulkan and AMDGPU-PRO under /opt/amdgpu-pro
C18_Witness ==
    /\ Called("get_vk_icd_choices")
    /\ machine.listing = <<[dir |-> 3, name |-> "amd_icd64.json"],
                           [dir |-> 7, name |-> "amd_icd64.json"]>>
    /\ probe.lists["amdvlk"] = <<"/etc/vulkan/icd.d/amd_icd64.json">>
    /\ probe.lists["amdvlkpro"] = <<"/opt/amdgpu-pro/etc/vulkan/icd.d/amd_icd64.json">>

\* the type tags of the option descriptors
OptionTypes ==
    {"bool", "string", "choice", "choice_with_entry", "file", "directory_chooser", "mapping"}

Has(d, key) == key \in DOMAIN d

\* the option keys of the descriptors that have no default
WithoutDefault ==
    { probe.value[i].option : i \in {j \in DOMAIN probe.value : ~Has(probe.value[j], "default")} }

\* C19 as it is stated: every descriptor has the keys option, type, label,
\* help and default, its type is one of the seven tags, the option keys are
\* pairwise distinct.
C19_FiveKeys ==
    Called("import") =>
        /\ \A i \in DOMAIN probe.value :
              /\ \A key \in {"option", "type", "label", "help", "default"} :
                    Has(probe.value[i], key)
              /\ probe.value[i].type \in OptionTypes
        /\ \A i, j \in DOMAIN probe.value :
              (i # j) => probe.value[i].option # probe.value[j].option

\* C19, amended: every descriptor has the keys option, type, label and help,
\* its type is one of the seven tags and the option keys are pairwise distinct;
\* default is present in 29 of the 41 descriptors: every bool, choice,
\* choice_with_entry and directory_chooser descriptor has one, the mapping and
\* the file descriptors have none, and of the string descriptors only
\* gamescope_output_res, gamescope_game_res and limit_cpu_count have one.
C19_FourKeys ==
    Called("import") =>
        /\ Len(probe.value) = 41
        /\ \A i \in DOMAIN probe.value :
              /\ \A key \in {"option", "type", "label", "help"} : Has(probe.value[i], key)
              /\ probe.value[i].type \in OptionTypes
              /\ probe.value[i].type \in {"bool", "choice", "choice_with_entry",
                                          "directory_chooser"}
                    => Has(probe.value[i], "default")
              /\ probe.value[i].type \in {"file", "mapping"}
                    => ~Has(probe.value[i], "default")
        /\ \A i, j \in DOMAIN probe.value :
              (i # j) => probe.value[i].option # probe.value[j].option
        /\ WithoutDefault =
              {"fps_limit", "env", "antimicro_config", "prefix_command", "manual_command",
               "prelaunch_command", "postexit_command", "include_processes",
               "exclude_processes", "killswitch", "sdl_gamecontrollerconfig",
               "xephyr_resolution"}

\* the list was built on a machine with an NVIDIA loader; env has no default
C19_Witness ==
    /\ Called("import")
    /\ machine.glxvendor = "OpenGL vendor string: NVIDIA Corporation"
    /\ probe.value[17].option = "vk_icd"
    /\ probe.value[17].default = "/usr/share/vulkan/icd.d/nvidia_icd.json"
    /\ probe.value[28].option = "env"
    /\ DOMAIN probe.value[28] = {"option", "type", "label", "help"}

-----------------------------------------------------------------------------
(* The merge for a slug that names no runner *)

\* C20: with a slug that import_runner refuses, with_runner_overrides returns
\* the base list itself: the same descriptors in the same order, none of them
\* changed, whatever overrides the runners define.
C20_InvalidRunnerReturnsBase ==
    (mpc = "returned" /\ slug = "nosuchrunner") =>
        /\ result = system_options
        /\ result = options0
        /\ ValueOf(heap, result) = ValueOf(heap0, options0)
        /\ \A r \in DOMAIN heap0 : heap[r] = heap0[r]

\* an unknown slug on a system whose runners override the two base options
C20_Witness ==
    /\ mpc = "returned"
    /\ slug = "nosuchrunner"
    /\ Len(result) = 2
    /\ Len(inst_override) = 2
    /\ \A i \in DOMAIN inst_override :
          \E j \in DOMAIN result : heap[inst_override[i]]["option"] = heap[result[j]]["option"]

-----------------------------------------------------------------------------
(* The end of the installation and the cancel *)

\* C21: after on_install_finished, whatever the game id, the handler has
\* completed: install_in_progress is false, the cancel, continue, install and
\* eject buttons are hidden, the close button is shown, and the launch button
\* is shown exactly when the game has an id.
C21_FinishedState ==
    (w.last = "on_install_finished") =>
        /\ w.raised = "none"
        /\ ~w.install_in_progress
        /\ w.visible \cap {"cancel", "continue", "install", "eject"} = {}
        /\ "close" \in w.visible
        /\ ("play" \in w.visible) <=> (w.game_id # 0)

\* C22: a cancel the user does not confirm returns True and changes nothing:
\* the window stays, stop_all, revert and cleanup are not called,
\* install_in_progress, the screen and the wiring of Continue are as before;
\* on_destroy called during an installation then returns True as well.
C22_UnconfirmedCancel ==
    /\ [][(w'.last = "cancel_no") =>
            /\ w' = [w EXCEPT !.last = "cancel_no", !.raised = "none", !.returned = "True"]
            /\ w'.stage = "open"]_vars
    /\ []((Open /\ w.install_in_progress) =>
            /\ on_destroy(Begin, FALSE) = [Begin EXCEPT !.returned = "True"]
            /\ on_destroy(Begin, FALSE).calls = w.calls)

\* the cancel was refused while the files were downloading
C22_Witness ==
    /\ w.last = "cancel_no"
    /\ w.returned = "True"
    /\ w.screen = "files"
    /\ w.cancel_files_func # 0
    /\ Downloading(w) # {}
    /\ w.calls = <<>>

-----------------------------------------------------------------------------
(* The extras step *)

Confirmed(win) == \E i \in DOMAIN win.log : win.log[i] = "on_extras_confirmed"

\* C23: on_runners_ready shows the extras picker only while interpreter.extras
\* is None and extras are offered, and then prepares no files; once
\* on_extras_confirmed has run, interpreter.extras is set, and every later
\* on_runners_ready shows no picker and calls prepare_game_files; the picker is
\* shown at most once.
C23_ExtrasStep ==
    /\ [][(w'.pickers # w.pickers) =>
            /\ ~w.extras_set
            /\ env.has_extras
            /\ w'.pickers = w.pickers + 1
            /\ w'.screen = "extras"
            /\ w'.prepares = w.prepares
            /\ w'.launches = w.launches
            /\ ~w'.extras_set]_vars
    /\ [](w.extras_set <=> Confirmed(w))
    /\ [][(w.extras_set /\ w'.last = "idle") =>
            /\ w'.pickers = w.pickers
            /\ w'.prepares = w.prepares + Len(w.idle)]_vars
    /\ [][w.extras_set => w'.extras_set]_vars
    /\ [](w.pickers <= 1)
    /\ []((w.prepares > 0 /\ env.has_extras) => (w.extras_set /\ w.pickers = 1))

\* the picker was shown once and two confirmations each prepared the files
C23_Witness ==
    /\ env.has_extras
    /\ w.pickers = 1
    /\ w.extras_set
    /\ w.prepares = 2
    /\ w.last = "idle"

\* ---------------------------------------------------------------------------
\* The extras picker: the tree store built by show_extras, the toggles of its
\* check boxes and the selection read back by on_extras_confirmed
\* (installerwindow.py lines 344-444)
\* ---------------------------------------------------------------------------

\* the most sources, and the most extras of all sources together
MaxSources == 2
MaxExtras == 4

\* an extra of source s as interpreter.get_extras() reports it; its id is a
\* non-empty identifier given by the service
Extra(s, e) == [id |-> "extra" \o Str(s) \o Str(e), name |-> "Extra " \o Str(e)]

\* the dictionaries show_extras is called with: on_runners_ready calls it only
\* with a non-empty dictionary (line 306); a source may list no extra
RECURSIVE Total(_)
Total(k) == IF k = <<>> THEN 0 ELSE k[1] + Total(Tail(k))

AllExtras ==
    UNION { { [s \in 1..n |-> [source |-> "source" \o Str(s),
                               extras |-> [e \in 1..k[s] |-> Extra(s, e)]]] :
              k \in { c \in [1..n -> 0..MaxExtras] : Total(c) <= MaxExtras } } :
            n \in 1..MaxSources }

\* get_extra_label, lines 344-354, of an extra without total_size and type
get_extra_label(extra) == extra.name

\* the Gtk.TreeStore of show_extras, lines 363-372: a None column value is
\* left unset, which reads FALSE for a bool column and None for a str column
extra_treestore(all_extras) ==
    [s \in DOMAIN all_extras |->
        [selected |-> FALSE, inconsistent |-> FALSE, id |-> PyNone,
         label |-> all_extras[s].source,
         children |-> [e \in DOMAIN all_extras[s].extras |->
                          [selected |-> FALSE, inconsistent |-> FALSE,
                           id |-> all_extras[s].extras[e].id,
                           label |-> get_extra_label(all_extras[s].extras[e])]]]]

\* the tree paths of a store: <<h>> is a heading row, <<h, c>> one of its children
Paths(model) ==
    { <<h>> : h \in DOMAIN model }
        \cup UNION { { <<h, c>> : c \in DOMAIN model[h].children } : h \in DOMAIN model }

\* lines 418-431: every heading row is recomputed from its children
Headings(model) ==
    [h \in DOMAIN model |->
        [model[h] EXCEPT
            !.selected = \A c \in DOMAIN model[h].children : model[h].children[c].selected,
            !.inconsistent = \E c \in DOMAIN model[h].children : model[h].children[c].selected]]

\* a mutant of on_extra_toggled: the heading rows are not recomputed
on_extra_toggled_keeps_headings(model, path) ==
    LET h == path[1]
    IN  IF Len(path) = 1
        THEN [model EXCEPT
                ![h] = [@ EXCEPT
                    !.selected = ~model[h].selected,
                    !.inconsistent = FALSE,
                    !.children = [c \in DOMAIN @ |->
                                    [@[c] EXCEPT !.selected = ~model[h].selected]]]]
        ELSE [model EXCEPT ![h].children[path[2]] =
                               [@ EXCEPT !.selected = ~@, !.inconsistent = FALSE]]

\* on_extra_toggled, lines 404-431
on_extra_toggled(model, path) ==
    LET h == path[1]
    IN  IF Len(path) = 1
        THEN LET toggled == [model EXCEPT ![h] = [@ EXCEPT !.selected = ~@,
                                                           !.inconsistent = FALSE]]
             IN  IF model[h].children # <<>>
                 THEN [toggled EXCEPT ![h].children =
                          [c \in DOMAIN @ |-> [@[c] EXCEPT !.selected = toggled[h].selected]]]
                 ELSE Headings(toggled)
        ELSE Headings([model EXCEPT ![h].children[path[2]] =
                                       [@ EXCEPT !.selected = ~@, !.inconsistent = FALSE]])

\* the rows of a store in the order TreeStore.foreach visits them: depth first
RECURSIVE Rows(_)
Rows(model) ==
    IF model = <<>> THEN <<>>
    ELSE <<[selected |-> model[1].selected, id |-> model[1].id]>>
            \o [c \in DOMAIN model[1].children |->
                   [selected |-> model[1].children[c].selected,
                    id |-> model[1].children[c].id]]
            \o Rows(Tail(model))

\* a mutant of save_extra: the id of the row is not tested
RECURSIVE save_extra_any_id(_)
save_extra_any_id(rows) ==
    IF rows = <<>> THEN <<>>
    ELSE (IF rows[1].selected THEN <<rows[1].id>> ELSE <<>>)
            \o save_extra_any_id(Tail(rows))

\* save_extra over the visited rows, lines 437-441
RECURSIVE save_extra(_)
save_extra(rows) ==
    IF rows = <<>> THEN <<>>
    ELSE (IF rows[1].selected /\ rows[1].id # PyNone /\ rows[1].id # ""
          THEN <<rows[1].id>> ELSE <<>>)
            \o save_extra(Tail(rows))

\* the picker before show_extras has been confirmed
XInit ==
    /\ MergeUnused
    /\ ProbeUnused
    /\ installers = <<>>
    /\ installers0 = <<>>
    /\ env = <<>>
    /\ w = <<>>
    /\ ShortcutsUnused
    /\ \E all_extras \in AllExtras :
          picker = [store |-> extra_treestore(all_extras),
                    extras |-> PyNone,
                    last |-> [op |-> "show_extras", path |-> <<>>]]

XFrame == UNCHANGED <<mvars, ivars, pvars, svars>>

\* the user clicks the check box of a row
Toggle ==
    /\ \E path \in Paths(picker.store) :
          picker' = [picker EXCEPT !.store = on_extra_toggled(@, path),
                                   !.last = [op |-> "toggle", path |-> path]]
    /\ XFrame

\* the user clicks Continue: on_extras_confirmed, lines 433-443
Confirm ==
    /\ picker' = [picker EXCEPT !.extras = save_extra(Rows(picker.store)),
                                !.last = [op |-> "confirm", path |-> <<>>]]
    /\ XFrame

XNext == Toggle \/ Confirm

SpecExtras == XInit /\ [][XNext]_vars

\* the child rows of the store whose check box is set
SelectedChildren(store) ==
    { p \in Paths(store) : Len(p) = 2 /\ store[p[1]].children[p[2]].selected }

\* path p is visited no later than path q
NotAfter(p, q) == p[1] < q[1] \/ (p[1] = q[1] /\ p[2] <= q[2])

\* the sequence xs lists exactly the ids of the selected children, in the order
\* the store is traversed
ListsSelectedChildren(xs, store) ==
    LET sel == SelectedChildren(store)
        Rank(p) == Cardinality({ q \in sel : NotAfter(q, p) })
    IN  /\ Len(xs) = Cardinality(sel)
        /\ \A p \in sel : xs[Rank(p)] = store[p[1]].children[p[2]].id

\* C24: on_extras_confirmed sets interpreter.extras to exactly the ids of the
\* child rows whose selected flag is true, in store traversal order; heading
\* rows, whose id is empty, never contribute, whatever their selected flag.
C24_SelectedExtras ==
    /\ (picker.last.op = "confirm") => ListsSelectedChildren(picker.extras, picker.store)
    /\ (picker.extras # PyNone) =>
          \A i \in DOMAIN picker.extras :
              /\ picker.extras[i] # PyNone
              /\ \A h \in DOMAIN picker.store : picker.extras[i] # picker.store[h].label

\* confirmed with a selected heading and selected children under two headings
C24_Witness ==
    /\ picker.last.op = "confirm"
    /\ Len(picker.store) = 2
    /\ picker.store[1].selected
    /\ ~picker.store[2].selected
    /\ Len(picker.store[1].children) = 2
    /\ Len(picker.store[2].children) = 2
    /\ picker.store[2].children[2].selected
    /\ picker.extras = <<"extra11", "extra12", "extra22">>

\* C25: after any sequence of toggles every heading with at least one child is
\* selected exactly when all its children are; toggling a heading sets each of
\* its children to the heading's new value and changes no row under another
\* heading.
C25_TreeConsistency ==
    /\ [](\A h \in DOMAIN picker.store :
            (picker.store[h].children # <<>>) =>
                (picker.store[h].selected <=>
                    \A c \in DOMAIN picker.store[h].children :
                        picker.store[h].children[c].selected))
    /\ [][(picker'.last.op = "toggle" /\ Len(picker'.last.path) = 1) =>
            LET h == picker'.last.path[1]
            IN  /\ (picker.store[h].children # <<>>) =>
                      picker'.store[h].selected = ~picker.store[h].selected
                /\ \A c \in DOMAIN picker'.store[h].children :
                      picker'.store[h].children[c].selected = picker'.store[h].selected
                /\ DOMAIN picker'.store[h].children = DOMAIN picker.store[h].children
                /\ \A g \in DOMAIN picker.store \ {h} :
                      picker'.store[g].children = picker.store[g].children]_vars

\* a heading was just cleared while the other heading stays partly selected
C25_Witness ==
    /\ picker.last = [op |-> "toggle", path |-> <<1>>]
    /\ Len(picker.store) = 2
    /\ Len(picker.store[1].children) = 2
    /\ ~picker.store[1].selected
    /\ ~picker.store[1].children[1].selected
    /\ ~picker.store[1].children[2].selected
    /\ Len(picker.store[2].children) = 2
    /\ picker.store[2].children[1].selected
    /\ ~picker.store[2].children[2].selected
    /\ ~picker.store[2].selected
    /\ picker.store[2].inconsistent

\* start_all of the box was called and did not raise
Started(win, b) == win.boxes[b].state \in {"downloading", "available"}

\* C26: after on_files_confirmed succeeds the continue button is insensitive
\* and its handler is disconnected, and no later Continue click, even after a
\* files-ready signal made the button sensitive again, calls start_all of the
\* box a second time.
C26_DownloadStartsOnce ==
    /\ [][\A b \in DOMAIN w.boxes :
            (~Started(w, b) /\ Started(w', b) /\ w'.boxes[b].state = "downloading") =>
                /\ w'.last = "continue"
                /\ w'.boxes[b].attempts = w.boxes[b].attempts + 1
                /\ ~w'.continue_sensitive
                /\ ~Connected(w', w.continue_handler)
                /\ \A h \in w'.handlers : ~(h.target = "on_files_confirmed" /\ h.box = b)]_vars
    /\ [][\A b \in DOMAIN w.boxes :
            Started(w, b) =>
                /\ b \in DOMAIN w'.boxes
                /\ w'.boxes[b].attempts = w.boxes[b].attempts
                /\ w'.boxes[b].state # "new"]_vars
    /\ [](\A b \in DOMAIN w.boxes :
            Started(w, b) =>
                \A h \in w.handlers : ~(h.target = "on_files_confirmed" /\ h.box = b))

\* the download runs, files-ready made the button sensitive again and a
\* Continue click found no handler to run
C26_Witness ==
    /\ w.last = "files-ready"
    /\ w.screen = "files"
    /\ "continue" \in w.visible
    /\ w.continue_sensitive
    /\ w.handlers = {}
    /\ \E b \in DOMAIN w.boxes :
          /\ w.boxes[b].alive
          /\ w.boxes[b].state = "downloading"
          /\ w.boxes[b].attempts = 2

\* the vendors in the order of their priority, with the label and the loader
\* class of each
VendorPriority == <<"Intel", "AMD", "NVIDIA">>
AutoLabels ==
    <<"Auto: Intel Open Source (MESA: ANV)",
      "Auto: AMD RADV Open Source (MESA: RADV)",
      "Auto: Nvidia Proprietary">>
AutoClasses == <<"intel", "amdradv", "nvidia">>

\* the vendors the probe output names
Named == { i \in DOMAIN VendorPriority : Contains(machine.glxvendor, VendorPriority[i]) }

\* the first entry the claim describes
ExpectedFirst ==
    IF Named = {}
    THEN <<"Auto: WARNING -- No Vulkan Loader detected!", "">>
    ELSE LET v == CHOOSE i \in Named : \A j \in Named : i <= j
         IN  <<AutoLabels[v], Join(Loaders(machine.listing, AutoClasses[v]), ":")>>

StepHandler(screen) ==
    IF screen = "input" THEN "input_callback"
    ELSE IF screen = "extras" THEN "on_extras_confirmed"
    ELSE "on_files_confirmed"

\* the continue button has at most one handler, and on a step screen it is the
\* handler of that step (for the file review: of the box that is shown)
OneStepHandler ==
    /\ Cardinality(w.handlers) <= 1
    /\ (Open /\ w.screen \in {"input", "extras", "files"}) =>
          \A h \in w.handlers :
              /\ h.target = StepHandler(w.screen)
              /\ h.id = w.continue_handler
              /\ (w.screen = "files") => (h.box = Len(w.boxes) /\ w.boxes[h.box].alive)

\* C28: at every reachable state the shared continue button has at most one
\* connected click handler, when a step screen (input menu, extras picker, file
\* review) is displayed that handler is the one of the displayed step, and no
\* handler id is disconnected more than once.
C28_ContinueWiring ==
    /\ OneStepHandler
    /\ ~w.stale_disconnect

\* C29: in one installer session interpreter.launch_installer_commands is
\* invoked at most once, for every interleaving of user clicks (repeated
\* Continue clicks on the extras screen before the queued on_runners_ready
\* runs included), runners-installed events and files-available signals.
C29_LaunchedOnce == w.launches <= 1

\* C30: the window is never destroyed while install_in_progress is true unless
\* the user confirmed the cancel dialog or a missing dependency ended the
\* session; a close request during an install always goes through
\* confirm_cancel.
C30_NoSilentDestroy ==
    /\ [][(w.install_in_progress /\ w.stage = "open" /\ w'.stage = "destroyed") =>
            \/ w'.last = "cancel_yes"
            \/ /\ w'.last \in {"dependency_yes", "dependency_no"}
               /\ env.missing_dependency
               /\ w'.questions = w.questions + 1]_vars
    /\ []((Open /\ w.install_in_progress) =>
            /\ on_destroy(Begin, FALSE).stage = "open"
            /\ on_destroy(Begin, FALSE).returned = "True"
            /\ \A yes \in BOOLEAN : on_destroy(Begin, yes) = confirm_cancel(Begin, yes))
    /\ []((w.stage = "open" /\ "close" \in w.visible) => ~w.install_in_progress)

\* the user confirmed the cancel dialog while the commands of the script ran
C30_Witness ==
    /\ w.stage = "destroyed"
    /\ w.install_in_progress
    /\ w.last = "cancel_yes"
    /\ w.launches = 1
    /\ w.ipc = "reverted"
    /\ w.calls = <<"revert", "cleanup", "destroy">>

\* the positions of a call in the record of the interpreter and window calls
Positions(win, call) == { i \in DOMAIN win.calls : win.calls[i] = call }

\* C31: on every path that destroys a window whose interpreter exists
\* (confirmed cancel, close after finish, launch after finish)
\* interpreter.cleanup has been called before the destroy; revert is called
\* only on the confirmed-cancel path and always before cleanup.
C31_CleanupBeforeDestroy ==
    /\ [][(w.stage = "open" /\ w'.stage = "destroyed" /\ w.interpreter # 0) =>
            /\ w'.last \in {"cancel_yes", "on_destroy", "launch_game"}
            /\ \E d \in Positions(w', "destroy") :
                  /\ d > Len(w.calls)
                  /\ \E c \in Positions(w', "cleanup") : Len(w.calls) < c /\ c < d
            /\ (Positions(w', "revert") # {}) <=> (w'.last = "cancel_yes")]_vars
    /\ [](\A r \in Positions(w, "revert") :
            /\ w.stage = "destroyed"
            /\ w.last = "cancel_yes"
            /\ \E c \in Positions(w, "cleanup") : r < c
            /\ \A c \in Positions(w, "cleanup") : r < c)
    /\ []((w.stage = "destroyed" /\ w.interpreter # 0) =>
            /\ Cardinality(Positions(w, "cleanup")) = 1
            /\ Cardinality(Positions(w, "destroy")) = 1)

\* the game was launched from the finished window: cleanup, then destroy, and
\* no revert
C31_Witness ==
    /\ w.stage = "destroyed"
    /\ w.last = "launch_game"
    /\ w.interpreter # 0
    /\ ~w.install_in_progress
    /\ w.calls = <<"cleanup", "destroy">>

\* ---------------------------------------------------------------------------
\* The shortcut check boxes of on_installer_selected, their click handlers and
\* the shortcuts on_install_finished creates (installerwindow.py lines 180-191,
\* 472-486, 534-552)
\* ---------------------------------------------------------------------------

\* dict[key] = True
SetTrue(config, key) ==
    [k \in DOMAIN config \cup {key} |-> IF k = key THEN TRUE ELSE config[k]]

\* lines 534-535
on_create_desktop_shortcut_clicked(config) == SetTrue(config, "create_desktop_shortcut")

\* lines 537-538
on_create_menu_shortcut_clicked(config) == SetTrue(config, "create_menu_shortcut")

\* lines 540-541
on_create_steam_shortcut_clicked(config) == SetTrue(config, "create_steam_shortcut")

\* the handler connected to the check box of a kind, lines 181, 185, 190
ClickedHandler(kind, config) ==
    IF kind = "desktop" THEN on_create_desktop_shortcut_clicked(config)
    ELSE IF kind = "menu" THEN on_create_menu_shortcut_clicked(config)
    ELSE on_create_steam_shortcut_clicked(config)

\* the check boxes lines 180-191 build; vdf: steam_shortcut.vdf_file_exists()
CheckButtons(vdf) == {"desktop", "menu"} \cup (IF vdf THEN {"steam"} ELSE {})

\* `if self.config.get(key)`: the key is set and its value is true
ConfigFlag(config, key) == key \in DOMAIN config /\ config[key]

\* the shortcuts on_install_finished creates, in order, lines 475-485; game_id 0
\* is the empty id
create_shortcuts(config, game_id) ==
    (IF ConfigFlag(config, "create_desktop_shortcut") THEN <<"desktop">> ELSE <<>>)
    \o (IF ConfigFlag(config, "create_menu_shortcut") THEN <<"menu">> ELSE <<>>)
    \o (IF game_id # 0 /\ ConfigFlag(config, "create_steam_shortcut")
        THEN <<"steam">> ELSE <<>>)

\* the window after on_installer_selected: self.config is the empty dict of
\* line 40 and no check box is active
SInit ==
    /\ MergeUnused
    /\ ProbeUnused
    /\ PickerUnused
    /\ installers = <<>>
    /\ installers0 = <<>>
    /\ env = <<>>
    /\ w = <<>>
    /\ \E vdf \in BOOLEAN :
          shortcuts = [buttons |-> CheckButtons(vdf),
                       active |-> [k \in CheckButtons(vdf) |-> FALSE],
                       config |-> <<>>,
                       stage |-> "choosing",
                       game_id |-> 0,
                       created |-> <<>>]

SFrame == UNCHANGED <<mvars, ivars, pvars, xvars>>

\* the user clicks a check box: the toggle button changes its state and emits
\* clicked
ClickShortcut ==
    /\ shortcuts.stage = "choosing"
    /\ \E kind \in shortcuts.buttons :
          shortcuts' = [shortcuts EXCEPT !.active[kind] = ~@,
                                         !.config = ClickedHandler(kind, @)]
    /\ SFrame

\* a later screen (extras, file review, input menu) empties widget_box
CleanShortcuts ==
    /\ shortcuts.stage = "choosing"
    /\ shortcuts' = [shortcuts EXCEPT !.stage = "cleaned"]
    /\ SFrame

\* the interpreter reports the end of the installation
FinishShortcuts ==
    /\ shortcuts.stage \in {"choosing", "cleaned"}
    /\ \E game_id \in {0, 1} :
          shortcuts' = [shortcuts EXCEPT !.stage = "finished",
                                         !.game_id = game_id,
                                         !.created = create_shortcuts(shortcuts.config, game_id)]
    /\ SFrame

SNext == ClickShortcut \/ CleanShortcuts \/ FinishShortcuts

SpecShortcuts == SInit /\ [][SNext]_vars

\* a shortcut of the kind was created
Created(kind) == \E i \in DOMAIN shortcuts.created : shortcuts.created[i] = kind

\* the check box of the kind exists and is in the checked state
Checked(kind) == kind \in shortcuts.buttons /\ shortcuts.active[kind]

\* C32: at install finish a desktop, menu or Steam shortcut is created exactly
\* when the corresponding check box is in the checked state, for every sequence
\* of clicks on it (checking and then unchecking it creates no shortcut); the
\* Steam shortcut additionally requires a non-empty game id.
C32_ShortcutsFollowCheckboxes ==
    (shortcuts.stage = "finished") =>
        /\ Created("desktop") <=> Checked("desktop")
        /\ Created("menu") <=> Checked("menu")
        /\ Created("steam") <=> (Checked("steam") /\ shortcuts.game_id # 0)

====
